---- MODULE Spec2Model ----
(***************************************************************************)
(* A model of SchemaBuilder (src/src/SchemaBuilder.ts): JSON schema        *)
(* documents held by SchemaBuilder instances, the structural              *)
(* transformations that derive new documents from them, and the cache of   *)
(* compiled validation functions tied to the versioned global             *)
(* configuration.                                                          *)
(*                                                                         *)
(* A JSON object is a function from the keys that are present to their     *)
(* values, so that an absent key, an empty list and a present value are    *)
(* three different things.  Values of one key always have one shape:       *)
(*   type                  [arr |-> BOOLEAN, names |-> Seq(STRING)]        *)
(*                         ("x" is arr = FALSE, ["x", "null"] is arr = TRUE)*)
(*   properties            function from property names to nodes           *)
(*   required              sequence of property names                      *)
(*   additionalProperties, items, not        a node                        *)
(*   oneOf, allOf, anyOf   sequence of nodes                               *)
(*   enum                  sequence of literals (strings, NullLit)         *)
(*   default, format, title  a string                                      *)
(* The JSON booleans that may stand where a schema is expected are the     *)
(* nodes BoolNode(TRUE) and BoolNode(FALSE); the JavaScript value          *)
(* undefined stored under a key is the node Undef.                         *)
(***************************************************************************)
EXTENDS Integers, Sequences, FiniteSets, TLC

\* ------------------------------------------------------------------ bounds
\* number of operations applied after the initial documents are constructed
MaxOps == 2
\* largest value the global configuration version counter is driven to
MaxVersion == 2

\* ------------------------------------------------------------- JSON values
Has(o, k) == k \in DOMAIN o
Del(o, k) == [f \in DOMAIN o \ {k} |-> o[f]]
Put(o, k, v) == [f \in DOMAIN o \cup {k} |-> IF f = k THEN v ELSE o[f]]
EmptyObject == [f \in {} |-> f]

BoolNode(b) == [bool |-> b]
Undef == [undefined |-> TRUE]
IsBool(n) == Has(n, "bool")
IsUndef(n) == Has(n, "undefined")
NullLit == "<null>"

TypeName(s) == [arr |-> FALSE, names |-> <<s>>]
TypeList(l) == [arr |-> TRUE, names |-> l]

InSeq(x, s) == \E i \in DOMAIN s : s[i] = x

RECURSIVE Without(_, _)
\* Array.prototype.filter((r) => r !== x)
Without(s, x) ==
    IF s = <<>> THEN <<>>
    ELSE IF Head(s) = x THEN Without(Tail(s), x)
         ELSE <<Head(s)>> \o Without(Tail(s), x)

RECURSIVE Keep(_, _)
\* Array.prototype.filter((r) => list.indexOf(r) !== -1)
Keep(s, list) ==
    IF s = <<>> THEN <<>>
    ELSE IF InSeq(Head(s), list) THEN <<Head(s)>> \o Keep(Tail(s), list)
         ELSE Keep(Tail(s), list)

RECURSIVE difference(_, _)
difference(s, list) ==
    IF s = <<>> THEN <<>>
    ELSE IF InSeq(Head(s), list) THEN difference(Tail(s), list)
         ELSE <<Head(s)>> \o difference(Tail(s), list)

RECURSIVE SpliceFirst(_, _)
\* required.splice(required.indexOf(x), 1), for x in required
SpliceFirst(s, x) ==
    IF s = <<>> THEN <<>>
    ELSE IF Head(s) = x THEN Tail(s)
         ELSE <<Head(s)>> \o SpliceFirst(Tail(s), x)

\* The property names of the model, in the order in which for-in and
\* Object.keys enumerate them (the insertion order of a property map is not
\* modelled: keys are enumerated in this fixed order).
KeyOrder == <<"a", "b", "c">>
PropNames == {KeyOrder[i] : i \in DOMAIN KeyOrder}

RECURSIVE KeysIn(_, _)
KeysIn(order, map) ==
    IF order = <<>> THEN <<>>
    ELSE IF Head(order) \in DOMAIN map THEN <<Head(order)>> \o KeysIn(Tail(order), map)
         ELSE KeysIn(Tail(order), map)

\* Object.keys(map) / for (key in map)
Keys(map) == KeysIn(KeyOrder, map)

\* ------------------------------------------------- the heap of JSON objects
\* heap[i] is the JSON tree allocated as object i.  A reference names a tree
\* and a path into it: getSubschema and getItemsSubschema hand out a
\* reference into the receiver's own tree.
Ref(id) == [id |-> id, path |-> <<>>]

RECURSIVE Walk(_, _)
Walk(node, path) ==
    IF path = <<>> THEN node
    ELSE IF Head(path).k = "items"
    THEN IF Has(node, "items") THEN Walk(node.items, Tail(path)) ELSE Undef
    ELSE IF Has(node, "properties") /\ Head(path).p \in DOMAIN node.properties
    THEN Walk(node.properties[Head(path).p], Tail(path))
    ELSE Undef

Deref(h, ref) == Walk(h[ref.id], ref.path)

\* this.schemaObject
Obj(h, this) == Deref(h, this.schemaObject)

\* utils cloneJSON: a deep copy, allocated as a new tree
cloneJSON(h, ref) == [heap |-> Append(h, Deref(h, ref)), id |-> Len(h) + 1]

Write(h, id, v) == [h EXCEPT ![id] = v]

\* utils setRequired: the list, or no key at all when the list is empty
setRequired(o, required) ==
    IF required = <<>> THEN Del(o, "required") ELSE Put(o, "required", required)

\* the outcome of an operation: an exception, or the arguments of the
\* new SchemaBuilder(schemaObject, validationConfig) it returns
Throw(h) == [out |-> "error", heap |-> h]
New(h, ref, cfg) == [out |-> "ok", heap |-> h, schemaObject |-> ref, validationConfig |-> cfg]

\* ---------------------------------------------------------- shape getters
hasType(o, type) ==
    /\ Has(o, "type")
    /\ IF o.type.arr THEN InSeq(type, o.type.names) ELSE o.type.names[1] = type

isObjectSchema(o) == hasType(o, "object") \/ (~Has(o, "type") /\ Has(o, "properties"))

isArraySchema(o) == hasType(o, "array") \/ (~Has(o, "type") /\ Has(o, "items"))

hasAdditionalProperties(o) ==
    /\ isObjectSchema(o)
    /\ ~(Has(o, "additionalProperties") /\ o.additionalProperties = BoolNode(FALSE))

hasSchemasCombinationKeywords(o) ==
    Has(o, "oneOf") \/ Has(o, "allOf") \/ Has(o, "anyOf") \/ Has(o, "not")

\* a variant that forgets additionalProperties
isSimpleObjectSchemaLoose(o) == isObjectSchema(o) /\ ~hasSchemasCombinationKeywords(o)

isSimpleObjectSchema(o) ==
    isObjectSchema(o) /\ ~hasAdditionalProperties(o) /\ ~hasSchemasCombinationKeywords(o)

\* schemaObject.properties || {}
PropsOf(o) == IF Has(o, "properties") THEN o.properties ELSE EmptyObject
\* schemaObject.required || []
ReqOf(o) == IF Has(o, "required") THEN o.required ELSE <<>>

\* The three values an optional boolean argument takes.
IsRequiredFlag(isRequired) == isRequired = "true" \/ isRequired = "undefined"

\* ------------------------------------------- structural transformations
\* Every operator takes the heap and the receiver (a SchemaBuilder record)
\* and yields Throw(heap') or New(heap', schemaObject, validationConfig).

RECURSIVE ClearDefaults(_, _)
\* the loop of setOptionalProperties over the given names
ClearDefaults(props, names) ==
    IF names = <<>> THEN props
    ELSE LET p == Head(names)
             cleared == IF p \in DOMAIN props /\ ~IsUndef(props[p]) /\ ~IsBool(props[p])
                        THEN [props EXCEPT ![p] = Del(@, "default")]
                        ELSE props
         IN ClearDefaults(cleared, Tail(names))

setOptionalProperties(h, this, properties) ==
    IF ~isSimpleObjectSchema(Obj(h, this)) THEN Throw(h)
    ELSE LET c == cloneJSON(h, this.schemaObject)
             schemaObject == c.heap[c.id]
             required == difference(ReqOf(schemaObject), properties)
             cleared == IF Has(schemaObject, "properties")
                        THEN Put(schemaObject, "properties",
                                 ClearDefaults(schemaObject.properties, properties))
                        ELSE schemaObject
         IN New(Write(c.heap, c.id, setRequired(cleared, required)), Ref(c.id),
                this.validationConfig)

RECURSIVE PushMissing(_, _)
\* the loop of setRequiredProperties: push each name that is not yet listed
PushMissing(required, names) ==
    IF names = <<>> THEN required
    ELSE PushMissing(IF InSeq(Head(names), required) THEN required
                     ELSE Append(required, Head(names)),
                     Tail(names))

\* a variant that pushes onto the receiver's own required list
setRequiredPropertiesInPlace(h, this, properties) ==
    IF ~isSimpleObjectSchema(Obj(h, this)) THEN Throw(h)
    ELSE LET schemaObject == Obj(h, this)
             result == IF properties = <<>> THEN schemaObject
                       ELSE Put(schemaObject, "required",
                                PushMissing(ReqOf(schemaObject), properties))
         IN New(Write(h, this.schemaObject.id, result), this.schemaObject,
                this.validationConfig)

setRequiredProperties(h, this, properties) ==
    IF ~isSimpleObjectSchema(Obj(h, this)) THEN Throw(h)
    ELSE LET c == cloneJSON(h, this.schemaObject)
             schemaObject == c.heap[c.id]
             result == IF properties = <<>> THEN schemaObject
                       ELSE Put(schemaObject, "required",
                                PushMissing(ReqOf(schemaObject), properties))
         IN New(Write(c.heap, c.id, result), Ref(c.id), this.validationConfig)

\* a variant of toOptionals that leaves the default facets
toOptionalsKeepingDefaults(h, this) ==
    LET c == cloneJSON(h, this.schemaObject)
    IN New(Write(c.heap, c.id, Del(c.heap[c.id], "required")), Ref(c.id),
           this.validationConfig)

toOptionals(h, this) ==
    LET c == cloneJSON(h, this.schemaObject)
        schemaObject == Del(c.heap[c.id], "required")
    IN IF ~Has(schemaObject, "properties")
       THEN New(Write(c.heap, c.id, schemaObject), Ref(c.id), this.validationConfig)
       ELSE IF \E p \in DOMAIN schemaObject.properties : IsUndef(schemaObject.properties[p])
       THEN Throw(c.heap)  \* delete (undefined).default is a TypeError
       ELSE New(Write(c.heap, c.id,
                      Put(schemaObject, "properties",
                          [p \in DOMAIN schemaObject.properties |->
                              IF IsBool(schemaObject.properties[p])
                              THEN schemaObject.properties[p]
                              ELSE Del(schemaObject.properties[p], "default")])),
                Ref(c.id), this.validationConfig)

RECURSIVE DeepOptional(_)
\* throughJsonSchema(schemaObject, (s) => { delete s.required; delete s.default })
DeepOptional(node) ==
    IF IsBool(node) \/ IsUndef(node) THEN node
    ELSE LET s == Del(Del(node, "required"), "default")
         IN [k \in DOMAIN s |->
                IF k \in {"properties", "patternProperties"}
                THEN [p \in DOMAIN s[k] |-> DeepOptional(s[k][p])]
                ELSE IF k \in {"oneOf", "allOf", "anyOf"}
                THEN [i \in DOMAIN s[k] |-> DeepOptional(s[k][i])]
                ELSE IF k \in {"items", "not", "additionalProperties"}
                THEN DeepOptional(s[k])
                ELSE s[k]]

toDeepOptionals(h, this) ==
    LET c == cloneJSON(h, this.schemaObject)
    IN New(Write(c.heap, c.id, DeepOptional(c.heap[c.id])), Ref(c.id), this.validationConfig)

\* toNullable, for one property value that is not required
NullableProperty(propertyValue) ==
    IF ~IsBool(propertyValue) /\ Has(propertyValue, "type")
    THEN LET t == propertyValue.type
             typed == IF t.arr /\ ~InSeq("null", t.names)
                      THEN Put(propertyValue, "type", TypeList(Append(t.names, "null")))
                      ELSE IF ~t.arr /\ t.names[1] # "null"
                      THEN Put(propertyValue, "type", TypeList(<<t.names[1], "null">>))
                      ELSE propertyValue
         IN IF Has(typed, "enum") /\ ~InSeq(NullLit, typed.enum)
            THEN Put(typed, "enum", Append(typed.enum, NullLit))
            ELSE typed
    ELSE [anyOf |-> <<propertyValue, [type |-> TypeName("null")]>>]

\* a variant of toNullable that widens the required properties too
toNullableAll(h, this) ==
    IF ~isSimpleObjectSchema(Obj(h, this)) THEN Throw(h)
    ELSE LET c == cloneJSON(h, this.schemaObject)
             schemaObject == c.heap[c.id]
         IN IF ~Has(schemaObject, "properties")
            THEN New(c.heap, Ref(c.id), this.validationConfig)
            ELSE IF \E p \in DOMAIN schemaObject.properties :
                       IsUndef(schemaObject.properties[p])
            THEN Throw(c.heap)
            ELSE New(Write(c.heap, c.id,
                           Put(schemaObject, "properties",
                               [p \in DOMAIN schemaObject.properties |->
                                   NullableProperty(schemaObject.properties[p])])),
                     Ref(c.id), this.validationConfig)

toNullable(h, this) ==
    IF ~isSimpleObjectSchema(Obj(h, this)) THEN Throw(h)
    ELSE LET c == cloneJSON(h, this.schemaObject)
             schemaObject == c.heap[c.id]
             required == ReqOf(schemaObject)
         IN IF ~Has(schemaObject, "properties")
            THEN New(c.heap, Ref(c.id), this.validationConfig)
            ELSE IF \E p \in DOMAIN schemaObject.properties :
                       ~InSeq(p, required) /\ IsUndef(schemaObject.properties[p])
            THEN Throw(c.heap)  \* "type" in undefined is a TypeError
            ELSE New(Write(c.heap, c.id,
                           Put(schemaObject, "properties",
                               [p \in DOMAIN schemaObject.properties |->
                                   IF InSeq(p, required) THEN schemaObject.properties[p]
                                   ELSE NullableProperty(schemaObject.properties[p])])),
                     Ref(c.id), this.validationConfig)

\* a variant that replaces an existing property declared optional
addPropertyOverOptional(h, this, propertyName, schemaBuilder, isRequired) ==
    IF ~isObjectSchema(Obj(h, this)) THEN Throw(h)
    ELSE LET c == cloneJSON(h, this.schemaObject)
             schemaObject == Put(c.heap[c.id], "properties", PropsOf(c.heap[c.id]))
         IN IF propertyName \in DOMAIN schemaObject.properties /\ IsRequiredFlag(isRequired)
            THEN Throw(c.heap)
            ELSE LET added == Put(schemaObject, "properties",
                                  Put(schemaObject.properties, propertyName,
                                      Obj(h, schemaBuilder)))
                     result == IF IsRequiredFlag(isRequired)
                               THEN Put(added, "required", Append(ReqOf(added), propertyName))
                               ELSE added
                 IN New(Write(c.heap, c.id, result), Ref(c.id), this.validationConfig)

\* a variant that takes only isRequired === true as required
addPropertyRequiredIfTrue(h, this, propertyName, schemaBuilder, isRequired) ==
    IF ~isObjectSchema(Obj(h, this)) THEN Throw(h)
    ELSE LET c == cloneJSON(h, this.schemaObject)
             schemaObject == Put(c.heap[c.id], "properties", PropsOf(c.heap[c.id]))
         IN IF propertyName \in DOMAIN schemaObject.properties THEN Throw(c.heap)
            ELSE LET added == Put(schemaObject, "properties",
                                  Put(schemaObject.properties, propertyName,
                                      Obj(h, schemaBuilder)))
                     result == IF isRequired = "true"
                               THEN Put(added, "required", Append(ReqOf(added), propertyName))
                               ELSE added
                 IN New(Write(c.heap, c.id, result), Ref(c.id), this.validationConfig)

addProperty(h, this, propertyName, schemaBuilder, isRequired) ==
    IF ~isObjectSchema(Obj(h, this)) THEN Throw(h)
    ELSE LET c == cloneJSON(h, this.schemaObject)
             schemaObject == Put(c.heap[c.id], "properties", PropsOf(c.heap[c.id]))
         IN IF propertyName \in DOMAIN schemaObject.properties THEN Throw(c.heap)
            ELSE LET added == Put(schemaObject, "properties",
                                  Put(schemaObject.properties, propertyName,
                                      Obj(h, schemaBuilder)))
                     result == IF IsRequiredFlag(isRequired)
                               THEN Put(added, "required", Append(ReqOf(added), propertyName))
                               ELSE added
                 IN New(Write(c.heap, c.id, result), Ref(c.id), this.validationConfig)

\* new SchemaBuilder(schemaObject) without a validation configuration
NoConfig == EmptyObject

getSubschema(h, this, propertyName) ==
    IF ~isSimpleObjectSchema(Obj(h, this)) \/ ~Has(Obj(h, this), "properties") THEN Throw(h)
    ELSE New(h, [id |-> this.schemaObject.id,
                 path |-> Append(this.schemaObject.path,
                                 [k |-> "properties", p |-> propertyName])],
             NoConfig)

getItemsSubschema(h, this) ==
    IF ~isArraySchema(Obj(h, this)) \/ ~Has(Obj(h, this), "items") THEN Throw(h)
    ELSE New(h, [id |-> this.schemaObject.id,
                 path |-> Append(this.schemaObject.path, [k |-> "items", p |-> ""])],
             NoConfig)

\* The resolver argument of replaceProperty is a SchemaBuilder,
\* [fn |-> FALSE, builder |-> b], or a function, [fn |-> TRUE]; the function of
\* the model is (s) => s.toOptionals().
Resolve(h, this, propertyName, schemaBuilderResolver) ==
    IF ~schemaBuilderResolver.fn
    THEN New(h, schemaBuilderResolver.builder.schemaObject, NoConfig)
    ELSE LET sub == getSubschema(h, this, propertyName)
         IN IF sub.out = "error" THEN sub
            ELSE IF IsUndef(Obj(sub.heap, sub)) THEN Throw(sub.heap)
            ELSE toOptionals(sub.heap, sub)

replaceProperty(h, this, propertyName, schemaBuilderResolver, isRequired) ==
    IF ~isObjectSchema(Obj(h, this)) THEN Throw(h)
    ELSE LET c == cloneJSON(h, this.schemaObject)
             withProps == Put(c.heap[c.id], "properties", PropsOf(c.heap[c.id]))
             schemaObject == IF Has(withProps, "required")
                             THEN Put(withProps, "required",
                                      Without(withProps.required, propertyName))
                             ELSE withProps
             schemaBuilder == Resolve(c.heap, this, propertyName, schemaBuilderResolver)
         IN IF schemaBuilder.out = "error" THEN Throw(schemaBuilder.heap)
            ELSE LET replaced == Put(schemaObject, "properties",
                                     Put(schemaObject.properties, propertyName,
                                         Obj(schemaBuilder.heap, schemaBuilder)))
                     result == IF IsRequiredFlag(isRequired)
                               THEN Put(replaced, "required",
                                        Append(ReqOf(replaced), propertyName))
                               ELSE replaced
                 IN New(Write(schemaBuilder.heap, c.id, result), Ref(c.id),
                        this.validationConfig)

addOrReplaceProperty(h, this, propertyName, schemaBuilder, isRequired) ==
    replaceProperty(h, this, propertyName, [fn |-> FALSE, builder |-> schemaBuilder], isRequired)

\* An optional SchemaBuilder argument is the sequence <<>> or <<builder>>.
addAdditionalProperties(h, this, schemaBuilder) ==
    LET cur == Obj(h, this)
    IN IF Has(cur, "additionalProperties") /\ cur.additionalProperties # BoolNode(FALSE)
       THEN Throw(h)
       ELSE LET c == cloneJSON(h, this.schemaObject)
                value == IF schemaBuilder = <<>> THEN BoolNode(TRUE)
                         ELSE Obj(h, schemaBuilder[1])
            IN New(Write(c.heap, c.id, Put(c.heap[c.id], "additionalProperties", value)),
                   Ref(c.id), this.validationConfig)

\* `^${prefixPattern}.*${suffixPattern}$`
PatternKey(prefixPattern, suffixPattern) == <<"^", prefixPattern, ".*", suffixPattern, "$">>

addPatternProperty(h, this, prefixPattern, suffixPattern, schemaBuilder) ==
    LET c == cloneJSON(h, this.schemaObject)
        schemaObject == c.heap[c.id]
        existing == IF Has(schemaObject, "patternProperties")
                    THEN schemaObject.patternProperties ELSE EmptyObject
        value == IF schemaBuilder = <<>> THEN BoolNode(TRUE) ELSE Obj(h, schemaBuilder[1])
    IN New(Write(c.heap, c.id,
                 Put(schemaObject, "patternProperties",
                     Put(existing, PatternKey(prefixPattern, suffixPattern), value))),
           Ref(c.id), this.validationConfig)

\* One entry of a properties definition (objectSchema, addProperties):
\* [name, isArray, builders, hasUndefined] stands for  name: builder  or for
\* name: [builder, ..., undefined].
DefinitionSchema(h, entry) ==
    IF Len(entry.builders) = 1 THEN Obj(h, entry.builders[1])
    ELSE [anyOf |-> [i \in DOMAIN entry.builders |-> Obj(h, entry.builders[i])]]

DefinitionRequired(entry) == ~entry.isArray \/ ~entry.hasUndefined

RECURSIVE DefineProperties(_, _, _)
\* the loop over propertiesDefinition of objectSchema and addProperties
DefineProperties(h, acc, propertiesDefinition) ==
    IF propertiesDefinition = <<>> THEN acc
    ELSE LET entry == Head(propertiesDefinition)
             props == Put(acc.properties, entry.name, DefinitionSchema(h, entry))
             required == IF DefinitionRequired(entry) THEN Append(acc.required, entry.name)
                         ELSE acc.required
         IN DefineProperties(h, [properties |-> props, required |-> required],
                             Tail(propertiesDefinition))

addProperties(h, this, propertiesDefinition) ==
    IF ~isObjectSchema(Obj(h, this)) THEN Throw(h)
    ELSE LET c == cloneJSON(h, this.schemaObject)
             schemaObject == Put(c.heap[c.id], "properties", PropsOf(c.heap[c.id]))
             propertiesIntersection ==
                 {propertiesDefinition[i].name : i \in DOMAIN propertiesDefinition}
                     \cap DOMAIN schemaObject.properties
         IN IF propertiesIntersection # {} THEN Throw(c.heap)
            ELSE LET d == DefineProperties(h, [properties |-> schemaObject.properties,
                                               required |-> ReqOf(schemaObject)],
                                           propertiesDefinition)
                     withProps == Put(schemaObject, "properties", d.properties)
                     \* required is created only by the first push
                     result == IF Has(schemaObject, "required") \/ d.required # <<>>
                               THEN Put(withProps, "required", d.required)
                               ELSE withProps
                 IN New(Write(c.heap, c.id, result), Ref(c.id), this.validationConfig)

renameProperty(h, this, propertyName, newPropertyName) ==
    IF ~isSimpleObjectSchema(Obj(h, this)) THEN Throw(h)
    ELSE LET c == cloneJSON(h, this.schemaObject)
             schemaObject == Put(c.heap[c.id], "properties", PropsOf(c.heap[c.id]))
             props == schemaObject.properties
         IN IF propertyName \notin DOMAIN props
            THEN New(Write(c.heap, c.id, schemaObject), Ref(c.id), this.validationConfig)
            ELSE LET moved == Put(schemaObject, "properties",
                                  Del(Put(props, newPropertyName, props[propertyName]),
                                      propertyName))
                     result == IF Has(moved, "required") /\ InSeq(propertyName, moved.required)
                               THEN Put(moved, "required",
                                        Append(SpliceFirst(moved.required, propertyName),
                                               newPropertyName))
                               ELSE moved
                 IN New(Write(c.heap, c.id, result), Ref(c.id), this.validationConfig)

RECURSIVE PickMap(_, _, _)
\* propertiesMap[property] = schemaObject.properties[property], for each name
PickMap(acc, props, names) ==
    IF names = <<>> THEN acc
    ELSE PickMap(Put(acc, Head(names),
                     IF Head(names) \in DOMAIN props THEN props[Head(names)] ELSE Undef),
                 props, Tail(names))

\* the part pickProperties and pickAdditionalProperties share: the picked
\* properties, and required filtered and deleted when it becomes empty
Picked(schemaObject, properties) ==
    LET mapped == Put(schemaObject, "properties",
                      PickMap(EmptyObject, PropsOf(schemaObject), properties))
        filtered == IF Has(mapped, "required")
                    THEN Put(mapped, "required", Keep(mapped.required, properties))
                    ELSE mapped
    IN IF Has(filtered, "required") /\ filtered.required = <<>>
       THEN Del(filtered, "required") ELSE filtered

pickProperties(h, this, properties) ==
    IF ~isObjectSchema(Obj(h, this)) \/ hasSchemasCombinationKeywords(Obj(h, this))
    THEN Throw(h)
    ELSE LET c == cloneJSON(h, this.schemaObject)
             result == Put(Picked(c.heap[c.id], properties),
                           "additionalProperties", BoolNode(FALSE))
         IN New(Write(c.heap, c.id, result), Ref(c.id), this.validationConfig)

RECURSIVE PromoteAdditional(_, _, _)
\* the loop of pickAdditionalProperties over the additional names
PromoteAdditional(o, additionalProps, names) ==
    IF names = <<>> THEN o
    ELSE LET value == IF IsBool(additionalProps) THEN EmptyObject ELSE additionalProps
             withProp == Put(o, "properties", Put(o.properties, Head(names), value))
         IN PromoteAdditional(Put(withProp, "required", Append(withProp.required, Head(names))),
                              additionalProps, Tail(names))

\* An optional list argument is [given |-> FALSE] or [given |-> TRUE, names |-> list].
pickAdditionalProperties(h, this, properties, additionalProperties) ==
    IF \/ ~isObjectSchema(Obj(h, this))
       \/ ~hasAdditionalProperties(Obj(h, this))
       \/ hasSchemasCombinationKeywords(Obj(h, this))
    THEN Throw(h)
    ELSE LET c == cloneJSON(h, this.schemaObject)
             hasProps == Has(c.heap[c.id], "additionalProperties")
             additionalProps == IF hasProps THEN c.heap[c.id].additionalProperties ELSE Undef
             picked == Picked(c.heap[c.id], properties)
             result ==
                 IF ~additionalProperties.given
                 THEN Put(picked, "additionalProperties",
                          IF hasProps THEN additionalProps ELSE BoolNode(TRUE))
                 ELSE IF additionalProperties.names = <<>>
                 THEN Put(picked, "additionalProperties", BoolNode(FALSE))
                 ELSE LET closed == Put(Put(picked, "additionalProperties", BoolNode(FALSE)),
                                        "required", ReqOf(picked))
                      IN IF hasProps
                         THEN PromoteAdditional(closed, additionalProps,
                                                additionalProperties.names)
                         ELSE closed
         IN New(Write(c.heap, c.id, result), Ref(c.id), this.validationConfig)

omitProperties(h, this, properties) ==
    IF ~isSimpleObjectSchema(Obj(h, this)) THEN Throw(h)
    ELSE pickProperties(h, this, difference(Keys(PropsOf(Obj(h, this))), properties))

\* propertyNames || Object.keys(schemaObject.properties)
NamesOr(propertyNames, schemaObject) ==
    IF propertyNames.given THEN propertyNames.names ELSE Keys(schemaObject.properties)

PropertyOrUndef(props, p) == IF p \in DOMAIN props THEN props[p] ELSE Undef

RECURSIVE TransformEach(_, _, _)
TransformEach(props, names, alternative) ==
    IF names = <<>> THEN props
    ELSE TransformEach(Put(props, Head(names),
                           [oneOf |-> <<PropertyOrUndef(props, Head(names)), alternative>>]),
                       Tail(names), alternative)

transformProperties(h, this, schemaBuilder, propertyNames) ==
    IF ~isSimpleObjectSchema(Obj(h, this)) THEN Throw(h)
    ELSE LET c == cloneJSON(h, this.schemaObject)
             schemaObject == Put(c.heap[c.id], "properties", PropsOf(c.heap[c.id]))
             names == NamesOr(propertyNames, schemaObject)
         IN New(Write(c.heap, c.id,
                      Put(schemaObject, "properties",
                          TransformEach(schemaObject.properties, names, Obj(h, schemaBuilder)))),
                Ref(c.id), this.validationConfig)

\* { ...a, ...b }
Spread(a, b) == [k \in DOMAIN a \cup DOMAIN b |-> IF k \in DOMAIN b THEN b[k] ELSE a[k]]

\* propertySchema.type === "array"
TypeIsArrayString(propertySchema) ==
    /\ Has(propertySchema, "type")
    /\ ~propertySchema.type.arr
    /\ propertySchema.type.names[1] = "array"

RECURSIVE ToArrayEach(_, _, _)
ToArrayEach(props, names, schema) ==
    IF names = <<>> THEN props
    ELSE LET propertySchema == props[Head(names)]
         IN ToArrayEach(IF ~TypeIsArrayString(propertySchema)
                        THEN Put(props, Head(names),
                                 [oneOf |-> <<propertySchema,
                                              Spread([type |-> TypeName("array"),
                                                      items |-> propertySchema], schema)>>])
                        ELSE props,
                        Tail(names), schema)

\* reading .type of a property that is undefined is a TypeError
ReadsUndefined(props, names) ==
    \E i \in DOMAIN names : names[i] \notin DOMAIN props \/ IsUndef(props[names[i]])

transformPropertiesToArray(h, this, propertyNames, schema) ==
    IF ~isSimpleObjectSchema(Obj(h, this)) THEN Throw(h)
    ELSE LET c == cloneJSON(h, this.schemaObject)
             schemaObject == Put(c.heap[c.id], "properties", PropsOf(c.heap[c.id]))
             names == NamesOr(propertyNames, schemaObject)
         IN IF ReadsUndefined(schemaObject.properties, names) THEN Throw(c.heap)
            ELSE New(Write(c.heap, c.id,
                           Put(schemaObject, "properties",
                               ToArrayEach(schemaObject.properties, names, schema))),
                     Ref(c.id), this.validationConfig)

RECURSIVE UnwrapEach(_, _)
UnwrapEach(props, names) ==
    IF names = <<>> THEN props
    ELSE LET propertySchema == props[Head(names)]
             itemsSchema == IF Has(propertySchema, "items") THEN propertySchema.items
                            ELSE Undef
         IN UnwrapEach(IF TypeIsArrayString(propertySchema)
                       THEN Put(props, Head(names), [oneOf |-> <<itemsSchema, propertySchema>>])
                       ELSE props,
                       Tail(names))

unwrapArrayProperties(h, this, propertyNames) ==
    IF ~isSimpleObjectSchema(Obj(h, this)) THEN Throw(h)
    ELSE LET c == cloneJSON(h, this.schemaObject)
             schemaObject == Put(c.heap[c.id], "properties", PropsOf(c.heap[c.id]))
             names == NamesOr(propertyNames, schemaObject)
         IN IF ReadsUndefined(schemaObject.properties, names) THEN Throw(c.heap)
            ELSE New(Write(c.heap, c.id,
                           Put(schemaObject, "properties",
                               UnwrapEach(schemaObject.properties, names))),
                     Ref(c.id), this.validationConfig)

RECURSIVE CombineEach(_, _, _, _)
\* The loop over the keys of schemaObject2.properties that intersectProperties
\* ("allOf"), mergeProperties ("anyOf") and overwriteProperties ("overwrite")
\* run on schemaObject1; o1.properties is set, o1.required may be absent.
CombineEach(o1, o2, keys, mode) ==
    IF keys = <<>> THEN o1
    ELSE LET propertyKey == Head(keys)
             theirs == o2.properties[propertyKey]
             required2 == Has(o2, "required") /\ InSeq(propertyKey, o2.required)
             required1 == Has(o1, "required") /\ InSeq(propertyKey, o1.required)
             next ==
                 IF propertyKey \notin DOMAIN o1.properties
                 THEN LET copied == Put(o1, "properties",
                                        Put(o1.properties, propertyKey, theirs))
                      IN IF required2
                         THEN Put(copied, "required", Append(ReqOf(copied), propertyKey))
                         ELSE copied
                 ELSE IF mode = "overwrite"
                 THEN LET replaced == Put(o1, "properties",
                                          Put(o1.properties, propertyKey, theirs))
                          dropped == IF required1
                                     THEN Put(replaced, "required",
                                              Without(replaced.required, propertyKey))
                                     ELSE replaced
                      IN IF required2
                         THEN Put(dropped, "required", Append(ReqOf(dropped), propertyKey))
                         ELSE dropped
                 ELSE LET both == <<o1.properties[propertyKey], theirs>>
                          combined == Put(o1, "properties",
                                          Put(o1.properties, propertyKey,
                                              IF mode = "allOf" THEN [allOf |-> both]
                                              ELSE [anyOf |-> both]))
                      IN IF mode = "allOf"
                         THEN IF required2 /\ ~required1
                              THEN Put(combined, "required",
                                       Append(ReqOf(combined), propertyKey))
                              ELSE combined
                         ELSE IF required1 /\ ~required2
                              THEN Put(combined, "required",
                                       Without(combined.required, propertyKey))
                              ELSE combined
         IN CombineEach(next, o2, Tail(keys), mode)

\* the body the three binary operations share after the receiver's check
CombineProperties(h, this, schema, mode) ==
    LET c1 == cloneJSON(h, this.schemaObject)
        c2 == cloneJSON(c1.heap, schema.schemaObject)
        schemaObject1 == c2.heap[c1.id]
        schemaObject2 == c2.heap[c2.id]
        result == IF ~IsUndef(schemaObject2) /\ Has(schemaObject2, "properties")
                  THEN CombineEach(Put(schemaObject1, "properties", PropsOf(schemaObject1)),
                                   schemaObject2, Keys(schemaObject2.properties), mode)
                  ELSE schemaObject1
    IN New(Write(c2.heap, c1.id, result), Ref(c1.id), this.validationConfig)

\* a variant of intersectProperties that combines as mergeProperties does
intersectPropertiesAsAnyOf(h, this, schema) ==
    IF ~isSimpleObjectSchema(Obj(h, this)) THEN Throw(h)
    ELSE CombineProperties(h, this, schema, "anyOf")

intersectProperties(h, this, schema) ==
    IF ~isSimpleObjectSchema(Obj(h, this)) THEN Throw(h)
    ELSE CombineProperties(h, this, schema, "allOf")

\* a variant of mergeProperties that combines as intersectProperties does
mergePropertiesAsAllOf(h, this, schema) ==
    IF ~isSimpleObjectSchema(Obj(h, this)) THEN Throw(h)
    ELSE CombineProperties(h, this, schema, "allOf")

mergeProperties(h, this, schema) ==
    IF ~isSimpleObjectSchema(Obj(h, this)) THEN Throw(h)
    ELSE CombineProperties(h, this, schema, "anyOf")

\* a variant of overwriteProperties that keeps both sub-documents
overwritePropertiesAsAnyOf(h, this, schema) ==
    IF ~isSimpleObjectSchema(Obj(h, this)) THEN Throw(h)
    ELSE CombineProperties(h, this, schema, "anyOf")

overwriteProperties(h, this, schema) ==
    IF ~isSimpleObjectSchema(Obj(h, this)) THEN Throw(h)
    ELSE CombineProperties(h, this, schema, "overwrite")

setSchemaAttributes(h, this, schema) ==
    LET c == cloneJSON(h, this.schemaObject)
    IN New(Write(c.heap, c.id, Spread(c.heap[c.id], schema)), Ref(c.id), this.validationConfig)

configureValidation(h, this, validationConfig) ==
    LET c == cloneJSON(h, this.schemaObject)
    IN New(c.heap, Ref(c.id), validationConfig)

\* ------------------------------------------------------------ constructors
\* The static constructors, as the JSON object they hand to new SchemaBuilder.
NullableType(name, nullable) == IF nullable THEN TypeList(<<name, "null">>) ELSE TypeName(name)

emptySchema(schema, nullable) ==
    Spread(schema, [type |-> NullableType("object", nullable),
                    additionalProperties |-> BoolNode(FALSE)])

objectSchema(h, schema, propertiesDefinition, nullable) ==
    LET d == DefineProperties(h, [properties |-> EmptyObject, required |-> <<>>],
                              propertiesDefinition)
        typed == Spread(schema, [type |-> NullableType("object", nullable)])
        withProps == IF DOMAIN d.properties # {} THEN Put(typed, "properties", d.properties)
                     ELSE typed
        withRequired == IF Len(d.required) > 0 THEN Put(withProps, "required", d.required)
                        ELSE withProps
    IN Put(withRequired, "additionalProperties", BoolNode(FALSE))

stringSchema(schema, nullable) == Spread(schema, [type |-> NullableType("string", nullable)])

arraySchema(items, schema, nullable) ==
    Spread(schema, [type |-> NullableType("array", nullable), items |-> items])

allOf(schemas) == [allOf |-> schemas]

\* ------------------------------------------------------------------ state
VARIABLES
    heap,                          \* the JSON objects allocated so far
    builders,                      \* the SchemaBuilder instances, in creation order
    globalAJVConfig,               \* SchemaBuilder.globalAJVConfig
    globalAJVConfigVersionNumber,  \* SchemaBuilder.globalAJVConfigVersionNumber
    nops,                          \* operations performed
    last,                          \* the last operation: its arguments and outcome
    validatedSince                 \* history: the <<instance, form>> pairs validated
                                   \* since the last setGlobalValidationConfig call

vars == <<heap, builders, globalAJVConfig, globalAJVConfigVersionNumber, nops, last,
          validatedSince>>

NoFunction == [compiled |-> FALSE]

\* new SchemaBuilder(schemaObject, validationConfig): the instance fields
SchemaBuilder(schemaObject, validationConfig) ==
    [schemaObject |-> schemaObject,
     validationConfig |-> validationConfig,
     validationFunction |-> NoFunction,
     localValidationFunctionVersionNumber |-> 0,
     listValidationFunction |-> NoFunction,
     localListValidationFunctionVersionNumber |-> 0]

InitialGlobalAJVConfig ==
    [coerceTypes |-> FALSE, removeAdditional |-> FALSE, useDefaults |-> TRUE,
     strict |-> FALSE, allErrors |-> TRUE]

\* The documents every behaviour starts with:
\*   1  SB.stringSchema({ default: "d" })
\*   2  SB.arraySchema(SB.stringSchema(), {}, true)
\* and a third one, built from them by one of the constructors (the last one
\* is a second SB.arraySchema(SB.stringSchema(), {}, true)).
Fixture1 == stringSchema([default |-> "d"], FALSE)
Fixture2 == arraySchema(stringSchema(EmptyObject, FALSE), EmptyObject, TRUE)
FixtureHeap == <<Fixture1, Fixture2>>
FixtureBuilder(i) == SchemaBuilder(Ref(i), NoConfig)

Required(name, i) ==
    [name |-> name, isArray |-> FALSE, builders |-> <<FixtureBuilder(i)>>, hasUndefined |-> FALSE]
Optional(name, i) ==
    [name |-> name, isArray |-> TRUE, builders |-> <<FixtureBuilder(i)>>, hasUndefined |-> TRUE]

InitialDocuments ==
    { emptySchema(EmptyObject, FALSE),
      objectSchema(FixtureHeap, EmptyObject, <<Required("a", 1), Optional("b", 2)>>, FALSE),
      objectSchema(FixtureHeap, [title |-> "T"], <<Optional("a", 1), Required("b", 1)>>, TRUE),
      allOf(<<emptySchema(EmptyObject, FALSE), Fixture1>>),
      Fixture2 }

NoOp ==
    [op |-> "none", this |-> 0, other |-> 0, name |-> "", newName |-> "", names |-> <<>>,
     more |-> <<>>, isRequired |-> "undefined", out |-> "ok", result |-> 0, heapLen |-> 0,
     compiled |-> FALSE, first |-> FALSE, report |-> <<>>, config |-> EmptyObject,
     data |-> 0, transformed |-> 0, schema |-> EmptyObject]

Init ==
    /\ \E d \in InitialDocuments : heap = Append(FixtureHeap, d)
    /\ builders = [i \in 1..3 |-> SchemaBuilder(Ref(i), NoConfig)]
    /\ globalAJVConfig = InitialGlobalAJVConfig
    /\ globalAJVConfigVersionNumber = 0
    /\ nops = 0
    /\ last = NoOp
    /\ validatedSince = {}

\* ------------------------------------------------------------ data values
\* The values handed to validate and parse.  An object is the function from
\* its keys to their values, as a JSON object of a document is; every other
\* value carries a tag.  A number is held in tenths (45.6 is Num(456)); a Date
\* is named by the string its toISOString renders.
Str(s) == [str |-> s]
Num(tenths) == [num |-> tenths]
Infinity == [infinity |-> TRUE]
NaN == [nan |-> TRUE]
Null == [null |-> TRUE]
DateValue(iso) == [date |-> iso]
List(items) == [list |-> items]

DataTags == {"str", "num", "infinity", "nan", "null", "date", "list", "bool"}
IsStr(v) == Has(v, "str")
IsNum(v) == Has(v, "num") \/ Has(v, "infinity") \/ Has(v, "nan")
IsNull(v) == Has(v, "null")
IsDate(v) == Has(v, "date")
IsList(v) == Has(v, "list")
\* typeof v === "object" for a value that is neither null, an array nor a Date
IsPlainObject(v) == DOMAIN v \cap DataTags = {}

\* the keys a data object may carry, in enumeration order
DataKeyOrder == KeyOrder \o <<"x-k">>

RECURSIVE transformDatesForValidation(_)
transformDatesForValidation(data) ==
    IF IsDate(data) THEN Str(data.date)
    ELSE IF IsList(data)
    THEN List([i \in DOMAIN data.list |-> transformDatesForValidation(data.list[i])])
    ELSE IF IsPlainObject(data)
    THEN [key \in DOMAIN data |-> transformDatesForValidation(data[key])]
    ELSE data

\* ------------------------------------------- validation and its cache
\* The validation engine (Ajv) is outside the repository.  Of it the model
\* keeps: compile(schema) under a configuration yields a function that
\* remembers both; under strict: true a schema with a keyword the engine does
\* not know is rejected by compile; a compiled function assigns the defaults
\* of the missing properties to the value it is given (useDefaults), then
\* reports the violations of type, required, additionalProperties,
\* properties, patternProperties, items and format: date-time, all of them
\* under allErrors: true and the first one only otherwise.  The keywords
\* that the validated documents do not carry are not evaluated.
UnknownKeyword == "x-meta"

AjvCompile(schemaObject, config) ==
    IF config.strict /\ Has(schemaObject, UnknownKeyword) THEN [out |-> "error"]
    ELSE [out |-> "ok",
          function |-> [compiled |-> TRUE, config |-> config, schema |-> schemaObject]]

\* the strings the engine's date-time format accepts; the last one is a leap
\* second
DateTimeStrings ==
    {"2020-01-02T03:04:05.000Z", "2020-01-02T03:04:05Z", "2020-01-02T05:04:05+02:00",
     "2020-12-31T23:59:60Z"}

\* the engine's test of one type name; a non-finite number is a number
\* unless strict (strictNumbers follows strict)
IsOfType(config, name, v) ==
    CASE name = "string" -> IsStr(v)
      [] name = "number" -> Has(v, "num") \/ (~config.strict /\ Has(v, "infinity"))
      [] name = "integer" ->
             \/ Has(v, "num") /\ v.num % 10 = 0
             \/ ~config.strict /\ Has(v, "infinity")
      [] name = "null" -> IsNull(v)
      [] name = "boolean" -> IsBool(v)
      [] name = "array" -> IsList(v)
      [] name = "object" -> IsPlainObject(v)
      [] OTHER -> FALSE

RECURSIVE UseDefaults(_, _)
\* useDefaults: the value as the engine leaves it
UseDefaults(schema, data) ==
    IF IsUndef(schema) \/ IsBool(schema) THEN data
    ELSE IF IsPlainObject(data) /\ Has(schema, "properties")
    THEN LET props == schema.properties
             defaulted == {p \in DOMAIN props \ DOMAIN data :
                               ~IsUndef(props[p]) /\ Has(props[p], "default")}
         IN [key \in DOMAIN data \cup defaulted |->
                IF key \in defaulted THEN Str(props[key].default)
                ELSE IF key \in DOMAIN props THEN UseDefaults(props[key], data[key])
                ELSE data[key]]
    ELSE IF IsList(data) /\ Has(schema, "items")
    THEN List([i \in DOMAIN data.list |-> UseDefaults(schema.items, data.list[i])])
    ELSE data

RECURSIVE MissingRequired(_, _, _)
MissingRequired(required, data, path) ==
    IF required = <<>> THEN <<>>
    ELSE (IF Head(required) \in DOMAIN data THEN <<>>
          ELSE <<[path |-> path, keyword |-> "required", name |-> Head(required)]>>)
         \o MissingRequired(Tail(required), data, path)

\* new RegExp(pattern).test(key), over the patterns and keys of the model
PatternMatches(pattern, key) == pattern = PatternKey("x-", "") /\ key = "x-k"

\* the pattern properties of a document that a key matches
MatchingPatterns(schema, key) ==
    IF Has(schema, "patternProperties")
    THEN {pattern \in DOMAIN schema.patternProperties : PatternMatches(pattern, key)}
    ELSE {}

RECURSIVE Violations(_, _, _, _)
RECURSIVE PropertyViolations(_, _, _, _, _)
RECURSIVE ItemViolations(_, _, _, _, _)

\* the violations of the keywords that apply to the keys of an object, key by key
PropertyViolations(config, schema, data, path, keys) ==
    IF keys = <<>> THEN <<>>
    ELSE LET key == Head(keys)
             declared == Has(schema, "properties") /\ key \in DOMAIN schema.properties
             patterns == MatchingPatterns(schema, key)
             additional == ~declared /\ patterns = {}
         IN (IF key \notin DOMAIN data THEN <<>>
             ELSE (IF additional /\ Has(schema, "additionalProperties")
                   THEN IF IsBool(schema.additionalProperties)
                        THEN IF schema.additionalProperties.bool THEN <<>>
                             ELSE <<[path |-> path, keyword |-> "additionalProperties",
                                     name |-> key]>>
                        ELSE Violations(config, schema.additionalProperties, data[key],
                                        Append(path, key))
                   ELSE <<>>)
                  \o (IF declared
                      THEN Violations(config, schema.properties[key], data[key],
                                      Append(path, key))
                      ELSE <<>>)
                  \o (IF patterns # {}
                      THEN Violations(config,
                                      schema.patternProperties[CHOOSE p \in patterns : TRUE],
                                      data[key], Append(path, key))
                      ELSE <<>>))
            \o PropertyViolations(config, schema, data, path, Tail(keys))

ItemViolations(config, schema, list, path, i) ==
    IF i > Len(list) THEN <<>>
    ELSE Violations(config, schema, list[i], Append(path, i))
         \o ItemViolations(config, schema, list, path, i + 1)

\* the violations of a value against a document, in the order the engine
\* reports them; a value of a wrong type is not examined further
Violations(config, schema, data, path) ==
    IF IsUndef(schema) \/ IsBool(schema) THEN <<>>
    ELSE IF /\ Has(schema, "type")
            /\ ~\E i \in DOMAIN schema.type.names :
                    IsOfType(config, schema.type.names[i], data)
    THEN <<[path |-> path, keyword |-> "type", name |-> ""]>>
    ELSE IF IsPlainObject(data)
    THEN MissingRequired(ReqOf(schema), data, path)
         \o PropertyViolations(config, schema, data, path, DataKeyOrder)
    ELSE IF IsList(data)
    THEN IF Has(schema, "items")
         THEN ItemViolations(config, schema.items, data.list, path, 1)
         ELSE <<>>
    ELSE IF IsStr(data) /\ Has(schema, "format")
    THEN IF schema.format = "date-time" /\ data.str \notin DateTimeStrings
         THEN <<[path |-> path, keyword |-> "format", name |-> ""]>>
         ELSE <<>>
    ELSE <<>>

\* first error only, unless allErrors
Reported(config, errors) ==
    IF config.allErrors \/ errors = <<>> THEN errors ELSE <<errors[1]>>

\* what one run of a compiled function does: the value as it leaves it and
\* the errors it reports
Run(function, schema, data) ==
    LET effect == IF function.config.useDefaults THEN UseDefaults(schema, data) ELSE data
    IN [data |-> effect,
        report |-> Reported(function.config,
                            Violations(function.config, schema, effect, <<>>))]

\* this.validationFunction(data)
RunValidation(function, data) == Run(function, function.schema, data)

\* this.listValidationFunction(list), compiled from
\* { type: "array", items: { $ref: "schema" }, minItems: 1 }
RunListValidation(function, list) ==
    IF IsList(list) /\ list.list = <<>>
    THEN [data |-> list,
          report |-> << [path |-> <<>>, keyword |-> "minItems", name |-> ""] >>]
    ELSE Run(function, [type |-> TypeName("array"), items |-> function.schema], list)

ajvValidationConfig(this) == Spread(globalAJVConfig, this.validationConfig)

\* a variant of cacheValidationFunction that compiles on every call
cacheValidationFunctionAlways(h, this) ==
    LET versioned == [this EXCEPT !.localValidationFunctionVersionNumber =
                                      globalAJVConfigVersionNumber]
        c == AjvCompile(Obj(h, this), ajvValidationConfig(this))
    IN IF c.out = "error"
       THEN [out |-> "error", compiled |-> TRUE, builder |-> versioned]
       ELSE [out |-> "ok", compiled |-> TRUE,
             builder |-> [versioned EXCEPT !.validationFunction = c.function]]

\* The two cache operations yield the instance as they leave it, whether
\* compile was called and whether it raised.
cacheValidationFunction(h, this) ==
    IF \/ ~this.validationFunction.compiled
       \/ this.localValidationFunctionVersionNumber # globalAJVConfigVersionNumber
    THEN LET versioned == [this EXCEPT !.localValidationFunctionVersionNumber =
                                           globalAJVConfigVersionNumber]
             c == AjvCompile(Obj(h, this), ajvValidationConfig(this))
         IN IF c.out = "error"
            THEN [out |-> "error", compiled |-> TRUE, builder |-> versioned]
            ELSE [out |-> "ok", compiled |-> TRUE,
                  builder |-> [versioned EXCEPT !.validationFunction = c.function]]
    ELSE [out |-> "ok", compiled |-> FALSE, builder |-> this]

cacheListValidationFunction(h, this) ==
    IF \/ ~this.listValidationFunction.compiled
       \/ this.localListValidationFunctionVersionNumber # globalAJVConfigVersionNumber
    THEN LET versioned == [this EXCEPT !.localListValidationFunctionVersionNumber =
                                           globalAJVConfigVersionNumber]
             c == AjvCompile(Obj(h, this), ajvValidationConfig(this))
         IN IF c.out = "error"
            THEN [out |-> "error", compiled |-> TRUE, builder |-> versioned]
            ELSE [out |-> "ok", compiled |-> TRUE,
                  builder |-> [versioned EXCEPT !.listValidationFunction = c.function]]
    ELSE [out |-> "ok", compiled |-> FALSE, builder |-> this]

\* a variant of validate that runs the function on the caller's object as it is
validateWithoutDatePass(h, this, o) ==
    LET h1 == Append(h, h[o])
        cached == cacheValidationFunction(h, this)
    IN IF cached.out = "error"
       THEN [cached EXCEPT !.out = "error"] @@ [report |-> <<>>, heap |-> h1]
       ELSE LET run == RunValidation(cached.builder.validationFunction, h[o])
            IN [out |-> IF run.report = <<>> THEN "ok" ELSE "invalid",
                compiled |-> cached.compiled, builder |-> cached.builder,
                report |-> run.report, heap |-> Write(h1, o, run.data)]

\* validate and validateList, called with the object that holds the caller's
\* value: the function runs on the value the date-to-wire pass builds, a new
\* object.  out is "ok", "invalid" (a ValidationError with the report) or
\* "error" (compile raised).
validate(h, this, o) ==
    LET transformedData == transformDatesForValidation(h[o])
        h1 == Append(h, transformedData)
        cached == cacheValidationFunction(h, this)
    IN IF cached.out = "error"
       THEN [cached EXCEPT !.out = "error"] @@ [report |-> <<>>, heap |-> h1]
       ELSE LET run == RunValidation(cached.builder.validationFunction, transformedData)
            IN [out |-> IF run.report = <<>> THEN "ok" ELSE "invalid",
                compiled |-> cached.compiled, builder |-> cached.builder,
                report |-> run.report, heap |-> Write(h1, Len(h1), run.data)]

\* a variant of validateList that hands the caller's list to the function
validateListInPlace(h, this, list) ==
    LET h1 == Append(h, h[list])
        cached == cacheListValidationFunction(h, this)
    IN IF cached.out = "error"
       THEN [cached EXCEPT !.out = "error"] @@ [report |-> <<>>, heap |-> h1]
       ELSE LET run == RunListValidation(cached.builder.listValidationFunction, h[list])
            IN [out |-> IF run.report = <<>> THEN "ok" ELSE "invalid",
                compiled |-> cached.compiled, builder |-> cached.builder,
                report |-> run.report, heap |-> Write(h1, list, run.data)]

validateList(h, this, list) ==
    LET transformedList ==
            List([i \in DOMAIN h[list].list |-> transformDatesForValidation(h[list].list[i])])
        h1 == Append(h, transformedList)
        cached == cacheListValidationFunction(h, this)
    IN IF cached.out = "error"
       THEN [cached EXCEPT !.out = "error"] @@ [report |-> <<>>, heap |-> h1]
       ELSE LET run == RunListValidation(cached.builder.listValidationFunction,
                                         transformedList)
            IN [out |-> IF run.report = <<>> THEN "ok" ELSE "invalid",
                compiled |-> cached.compiled, builder |-> cached.builder,
                report |-> run.report, heap |-> Write(h1, Len(h1), run.data)]

\* ---------------------------------------------------------------- actions
\* The operations form a chain: the receiver is the instance created last (the
\* third document at first).  The first two documents serve as the
\* sub-document arguments; the binary operations take the third one or the
\* last one on either side.
Builders == {Len(builders)}
Others == {3, Len(builders)}
SubDocuments == {1, 2}
NameLists == {<<>>, <<"a">>, <<"a", "b">>, <<"c">>}
OptionalNameLists ==
    {[given |-> FALSE], [given |-> TRUE, names |-> <<"a">>], [given |-> TRUE, names |-> <<"c">>]}
AdditionalNameLists ==
    {[given |-> FALSE]} \cup {[given |-> TRUE, names |-> l] : l \in {<<>>, <<"a">>, <<"c">>}}
Flags == {"true", "false", "undefined"}
Definitions ==
    { <<Required("c", 1)>>,
      <<Optional("c", 2), Required("a", 1)>>,
      <<[name |-> "c", isArray |-> TRUE, builders |-> <<FixtureBuilder(1), FixtureBuilder(2)>>,
         hasUndefined |-> FALSE]>> }
Renames == {<<"a", "c">>, <<"a", "b">>, <<"c", "a">>}
Attributes == {[title |-> "U"], [default |-> "e"]}

RECURSIVE ContainsRef(_)
\* utils throughJsonSchema with the callback of the constructor: some node of
\* the tree carries the keyword $ref
ContainsRef(node) ==
    IF IsBool(node) \/ IsUndef(node) THEN FALSE
    ELSE \/ Has(node, "$ref")
         \/ \E k \in DOMAIN node \cap {"properties", "patternProperties"} :
                \E p \in DOMAIN node[k] : ContainsRef(node[k][p])
         \/ \E k \in DOMAIN node \cap {"oneOf", "allOf", "anyOf"} :
                \E i \in DOMAIN node[k] : ContainsRef(node[k][i])
         \/ \E k \in DOMAIN node \cap {"items", "not", "additionalProperties"} :
                ContainsRef(node[k])

\* a variant of the constructor that accepts every tree
ConstructUnchecked(res) == res

\* the constructor, run on what an operation hands to new SchemaBuilder: it
\* raises when the tree carries $ref
Construct(res) ==
    IF res.out = "ok" /\ ContainsRef(Deref(res.heap, res.schemaObject))
    THEN Throw(res.heap)
    ELSE res

\* One call: the heap the operation leaves, the instance it returns (if any)
\* and the record of the call.
Call(call, res) ==
    /\ nops < MaxOps
    /\ nops' = nops + 1
    /\ heap' = res.heap
    /\ builders' = IF Construct(res).out = "ok"
                   THEN Append(builders, SchemaBuilder(res.schemaObject, res.validationConfig))
                   ELSE builders
    /\ last' = [call EXCEPT !.out = Construct(res).out,
                            !.result = IF Construct(res).out = "ok"
                                       THEN Len(builders) + 1 ELSE 0,
                            !.heapLen = Len(heap)]
    /\ UNCHANGED <<globalAJVConfig, globalAJVConfigVersionNumber, validatedSince>>

SetOptionalProperties ==
    \E this \in Builders, names \in NameLists :
        Call([NoOp EXCEPT !.op = "setOptionalProperties", !.this = this, !.names = names],
             setOptionalProperties(heap, builders[this], names))

SetRequiredProperties ==
    \E this \in Builders, names \in NameLists :
        Call([NoOp EXCEPT !.op = "setRequiredProperties", !.this = this, !.names = names],
             setRequiredProperties(heap, builders[this], names))

ToOptionals ==
    \E this \in Builders :
        Call([NoOp EXCEPT !.op = "toOptionals", !.this = this],
             toOptionals(heap, builders[this]))

ToDeepOptionals ==
    \E this \in Builders :
        Call([NoOp EXCEPT !.op = "toDeepOptionals", !.this = this],
             toDeepOptionals(heap, builders[this]))

ToNullable ==
    \E this \in Builders :
        Call([NoOp EXCEPT !.op = "toNullable", !.this = this],
             toNullable(heap, builders[this]))

AddProperty ==
    \E this \in Builders, p \in {"a", "c"}, s \in SubDocuments, r \in Flags :
        Call([NoOp EXCEPT !.op = "addProperty", !.this = this, !.name = p, !.other = s,
                          !.isRequired = r],
             addProperty(heap, builders[this], p, builders[s], r))

AddProperties ==
    \E this \in Builders, d \in Definitions :
        Call([NoOp EXCEPT !.op = "addProperties", !.this = this,
                          !.names = [i \in DOMAIN d |-> d[i].name]],
             addProperties(heap, builders[this], d))

\* a function resolver is applied to a property the receiver has
ReplaceProperty ==
    \E this \in Builders, p \in {"a", "c"}, fn \in BOOLEAN, r \in {"undefined", "false"} :
        /\ fn => LET props == PropsOf(Obj(heap, builders[this]))
                 IN p \in DOMAIN props /\ ~IsUndef(props[p])
        /\ Call([NoOp EXCEPT !.op = "replaceProperty", !.this = this, !.name = p,
                             !.other = IF fn THEN 0 ELSE 1, !.isRequired = r],
                replaceProperty(heap, builders[this], p,
                                [fn |-> fn, builder |-> builders[1]], r))

AddOrReplaceProperty ==
    \E this \in Builders, p \in {"a", "c"}, r \in {"undefined", "false"} :
        Call([NoOp EXCEPT !.op = "addOrReplaceProperty", !.this = this, !.name = p,
                          !.other = 2, !.isRequired = r],
             addOrReplaceProperty(heap, builders[this], p, builders[2], r))

AddAdditionalProperties ==
    \E this \in Builders, s \in {0, 1} :
        Call([NoOp EXCEPT !.op = "addAdditionalProperties", !.this = this, !.other = s],
             addAdditionalProperties(heap, builders[this],
                                     IF s = 0 THEN <<>> ELSE <<builders[s]>>))

AddPatternProperty ==
    \E this \in Builders, s \in {0, 1} :
        Call([NoOp EXCEPT !.op = "addPatternProperty", !.this = this, !.other = s],
             addPatternProperty(heap, builders[this], "x-", "",
                                IF s = 0 THEN <<>> ELSE <<builders[s]>>))

RenameProperty ==
    \E this \in Builders, r \in Renames :
        Call([NoOp EXCEPT !.op = "renameProperty", !.this = this, !.name = r[1],
                          !.newName = r[2]],
             renameProperty(heap, builders[this], r[1], r[2]))

PickProperties ==
    \E this \in Builders, names \in NameLists :
        Call([NoOp EXCEPT !.op = "pickProperties", !.this = this, !.names = names],
             pickProperties(heap, builders[this], names))

OmitProperties ==
    \E this \in Builders, names \in NameLists :
        Call([NoOp EXCEPT !.op = "omitProperties", !.this = this, !.names = names],
             omitProperties(heap, builders[this], names))

PickAdditionalProperties ==
    \E this \in Builders, names \in {<<>>, <<"a">>}, more \in AdditionalNameLists :
        Call([NoOp EXCEPT !.op = "pickAdditionalProperties", !.this = this, !.names = names,
                          !.more = IF more.given THEN <<more.names>> ELSE <<>>],
             pickAdditionalProperties(heap, builders[this], names, more))

TransformProperties ==
    \E this \in Builders, names \in OptionalNameLists :
        Call([NoOp EXCEPT !.op = "transformProperties", !.this = this, !.other = 1,
                          !.more = IF names.given THEN <<names.names>> ELSE <<>>],
             transformProperties(heap, builders[this], builders[1], names))

TransformPropertiesToArray ==
    \E this \in Builders, names \in OptionalNameLists :
        Call([NoOp EXCEPT !.op = "transformPropertiesToArray", !.this = this,
                          !.more = IF names.given THEN <<names.names>> ELSE <<>>],
             transformPropertiesToArray(heap, builders[this], names, EmptyObject))

UnwrapArrayProperties ==
    \E this \in Builders, names \in OptionalNameLists :
        Call([NoOp EXCEPT !.op = "unwrapArrayProperties", !.this = this,
                          !.more = IF names.given THEN <<names.names>> ELSE <<>>],
             unwrapArrayProperties(heap, builders[this], names))

IntersectProperties ==
    \E this \in Others, other \in Others :
        Call([NoOp EXCEPT !.op = "intersectProperties", !.this = this, !.other = other],
             intersectProperties(heap, builders[this], builders[other]))

MergeProperties ==
    \E this \in Others, other \in Others :
        Call([NoOp EXCEPT !.op = "mergeProperties", !.this = this, !.other = other],
             mergeProperties(heap, builders[this], builders[other]))

OverwriteProperties ==
    \E this \in Others, other \in Others :
        Call([NoOp EXCEPT !.op = "overwriteProperties", !.this = this, !.other = other],
             overwriteProperties(heap, builders[this], builders[other]))

SetSchemaAttributes ==
    \E this \in Builders, schema \in Attributes :
        Call([NoOp EXCEPT !.op = "setSchemaAttributes", !.this = this],
             setSchemaAttributes(heap, builders[this], schema))

\* the property asked for is one the receiver has
GetSubschema ==
    \E this \in Builders, p \in {"a", "b", "c"} :
        /\ LET props == PropsOf(Obj(heap, builders[this]))
           IN p \in DOMAIN props => ~IsUndef(props[p]) /\ ~IsBool(props[p])
        /\ p \in DOMAIN PropsOf(Obj(heap, builders[this]))
               \/ ~isSimpleObjectSchema(Obj(heap, builders[this]))
        /\ Call([NoOp EXCEPT !.op = "getSubschema", !.this = this, !.name = p],
                getSubschema(heap, builders[this], p))

GetItemsSubschema ==
    \E this \in Builders :
        Call([NoOp EXCEPT !.op = "getItemsSubschema", !.this = this],
             getItemsSubschema(heap, builders[this]))

LocalConfigs == {[coerceTypes |-> TRUE], [allErrors |-> FALSE]}

ConfigureValidation ==
    \E this \in Builders, config \in LocalConfigs :
        Call([NoOp EXCEPT !.op = "configureValidation", !.this = this],
             configureValidation(heap, builders[this], config))

Next ==
    \/ SetOptionalProperties
    \/ SetRequiredProperties
    \/ ToOptionals
    \/ ToDeepOptionals
    \/ ToNullable
    \/ AddProperty
    \/ AddProperties
    \/ ReplaceProperty
    \/ AddOrReplaceProperty
    \/ AddAdditionalProperties
    \/ AddPatternProperty
    \/ RenameProperty
    \/ PickProperties
    \/ OmitProperties
    \/ PickAdditionalProperties
    \/ TransformProperties
    \/ TransformPropertiesToArray
    \/ UnwrapArrayProperties
    \/ IntersectProperties
    \/ MergeProperties
    \/ OverwriteProperties
    \/ SetSchemaAttributes
    \/ GetSubschema
    \/ GetItemsSubschema
    \/ ConfigureValidation

Spec == Init /\ [][Next]_vars

\* ------------------------------------ the validation cache: specification
\* A behaviour follows one document, the last of the instances: one of
\*   SB.objectSchema({}, { a: SB.stringSchema(), b: SB.stringSchema() })
\*   SB.fromJsonSchema(<the same with the keyword "x-meta">)
\* or what configureValidation({ allErrors: false }) returns for one of them.
\* The cache fields belong to the instance, so that the caches of two
\* documents do not influence each other.
CacheFixtureHeap == <<stringSchema(EmptyObject, FALSE), Fixture2>>
CacheDocument ==
    objectSchema(CacheFixtureHeap, EmptyObject, <<Required("a", 1), Required("b", 1)>>, FALSE)
CacheDocuments == {CacheDocument, Put(CacheDocument, UnknownKeyword, "m")}
Configured(h, this) == configureValidation(h, this, [allErrors |-> FALSE])

InitCache ==
    /\ \E d \in CacheDocuments, configured \in BOOLEAN :
          LET h == Append(CacheFixtureHeap, d)
              bs == [i \in 1..3 |-> SchemaBuilder(Ref(i), NoConfig)]
              c == Configured(h, bs[3])
          IN IF configured
             THEN /\ heap = c.heap
                  /\ builders = Append(bs, SchemaBuilder(c.schemaObject, c.validationConfig))
             ELSE /\ heap = h
                  /\ builders = bs
    /\ globalAJVConfig = InitialGlobalAJVConfig
    /\ globalAJVConfigVersionNumber = 0
    /\ nops = 0
    /\ last = NoOp
    /\ validatedSince = {}

CacheBuilders == {Len(builders)}
Partials ==
    { EmptyObject, [allErrors |-> TRUE], [allErrors |-> FALSE], [strict |-> TRUE],
      [strict |-> FALSE], [strict |-> TRUE, allErrors |-> FALSE] }
DataObjects == {EmptyObject, [a |-> Str("x"), b |-> Str("y")]}
DataLists ==
    {List(<<>>), List(<<EmptyObject>>), List(<<[a |-> Str("x"), b |-> Str("y")], EmptyObject>>)}

\* a variant that counts only the calls that change an option
setGlobalValidationConfigIfChanged(config) ==
    [globalAJVConfig |-> Spread(globalAJVConfig, config),
     globalAJVConfigVersionNumber |->
         IF Spread(globalAJVConfig, config) = globalAJVConfig
         THEN globalAJVConfigVersionNumber ELSE globalAJVConfigVersionNumber + 1]

setGlobalValidationConfig(config) ==
    [globalAJVConfig |-> Spread(globalAJVConfig, config),
     globalAJVConfigVersionNumber |-> globalAJVConfigVersionNumber + 1]

SetGlobalValidationConfig ==
    \E config \in Partials :
        /\ globalAJVConfigVersionNumber < MaxVersion
        /\ globalAJVConfig' = setGlobalValidationConfig(config).globalAJVConfig
        /\ globalAJVConfigVersionNumber' =
               setGlobalValidationConfig(config).globalAJVConfigVersionNumber
        /\ last' = [NoOp EXCEPT !.op = "setGlobalValidationConfig", !.config = config]
        /\ validatedSince' = {}
        /\ UNCHANGED <<heap, builders, nops>>

\* a call on one instance that may update its cache fields
CacheCall(op, form, this, res, validates) ==
    /\ builders' = [builders EXCEPT ![this] = res.builder]
    /\ last' = [NoOp EXCEPT !.op = op, !.this = this, !.out = res.out,
                            !.compiled = res.compiled,
                            !.first = validates /\ <<this, form>> \notin validatedSince,
                            !.report = IF validates THEN res.report ELSE <<>>,
                            !.config = IF validates /\ res.out # "error"
                                       THEN IF form = "single"
                                            THEN res.builder.validationFunction.config
                                            ELSE res.builder.listValidationFunction.config
                                       ELSE EmptyObject]
    /\ validatedSince' = IF validates THEN validatedSince \cup {<<this, form>>}
                         ELSE validatedSince
    /\ UNCHANGED <<heap, globalAJVConfig, globalAJVConfigVersionNumber, nops>>

Validate ==
    \E this \in CacheBuilders, o \in DataObjects :
        CacheCall("validate", "single", this,
                  validate(Append(heap, o), builders[this], Len(heap) + 1), TRUE)

ValidateList ==
    \E this \in CacheBuilders, list \in DataLists :
        CacheCall("validateList", "list", this,
                  validateList(Append(heap, list), builders[this], Len(heap) + 1), TRUE)

CacheValidationFunction ==
    \E this \in CacheBuilders :
        CacheCall("cacheValidationFunction", "single", this,
                  cacheValidationFunction(heap, builders[this]), FALSE)

CacheListValidationFunction ==
    \E this \in CacheBuilders :
        CacheCall("cacheListValidationFunction", "list", this,
                  cacheListValidationFunction(heap, builders[this]), FALSE)

NextCache ==
    \/ SetGlobalValidationConfig
    \/ Validate
    \/ ValidateList
    \/ CacheValidationFunction
    \/ CacheListValidationFunction

SpecCache == InitCache /\ [][NextCache]_vars

\* ---------------------------------------------------------------------------
\* Properties
\* ---------------------------------------------------------------------------

\* the operations named by the immutability contract
StructuralTransformations ==
    {"addProperty", "addProperties", "replaceProperty", "addAdditionalProperties",
     "addPatternProperty", "setOptionalProperties", "setRequiredProperties", "toOptionals",
     "toDeepOptionals", "toNullable", "renameProperty", "pickProperties", "omitProperties",
     "pickAdditionalProperties", "transformProperties", "transformPropertiesToArray",
     "unwrapArrayProperties", "intersectProperties", "mergeProperties",
     "overwriteProperties", "setSchemaAttributes"}

BinaryOperations == {"intersectProperties", "mergeProperties", "overwriteProperties"}

\* the operations that ask for a simple object schema as receiver
SimpleReceiverOperations ==
    {"setOptionalProperties", "setRequiredProperties", "toNullable", "renameProperty",
     "omitProperties", "transformProperties", "transformPropertiesToArray",
     "unwrapArrayProperties", "intersectProperties", "mergeProperties",
     "overwriteProperties", "getSubschema"}

\* object kind, additionalProperties === false, no combinator keyword, read
\* off the keys of the document
Simple(o) ==
    /\ isObjectSchema(o)
    /\ Has(o, "additionalProperties") /\ o.additionalProperties = BoolNode(FALSE)
    /\ ~(Has(o, "oneOf") \/ Has(o, "allOf") \/ Has(o, "anyOf") \/ Has(o, "not"))

\* C1: every step leaves every schema document that exists before it as it
\* is (the receiver's and the argument's among them), whether the operation
\* returns or raises, and a structural transformation that returns yields a
\* new instance over a newly allocated schema document.
C1_TransformationsLeaveDocumentsUnchanged ==
    [][ /\ \A i \in DOMAIN heap : i \in DOMAIN heap' /\ heap'[i] = heap[i]
        /\ \A i \in DOMAIN builders :
              /\ i \in DOMAIN builders'
              /\ builders'[i].schemaObject = builders[i].schemaObject
              /\ Obj(heap', builders'[i]) = Obj(heap, builders[i])
        /\ (last'.op \in StructuralTransformations /\ last'.out = "ok") =>
              /\ last'.result = Len(builders) + 1
              /\ Len(builders') = Len(builders) + 1
              /\ builders'[last'.result].schemaObject.id \notin DOMAIN heap
              /\ builders'[last'.result].schemaObject.path = <<>>
        /\ last'.out = "error" => builders' = builders ]_vars

\* a binary operation has returned a document that differs from its receiver
\* and from its argument, and another structural transformation has raised
C1_Witness ==
    /\ last.op \in BinaryOperations /\ last.out = "ok" /\ last.this # last.other
    /\ Obj(heap, builders[last.result]) # Obj(heap, builders[last.this])
    /\ Obj(heap, builders[last.result]) # Obj(heap, builders[last.other])

\* C6: in a document derived from emptySchema or objectSchema the required
\* list, when present, is not empty and names no property twice.
C6_RequiredHasNoDuplicateAndIsNeverEmpty ==
    Simple(heap[3]) =>
        \A i \in 3..Len(builders) :
            LET o == Obj(heap, builders[i])
            IN (~IsUndef(o) /\ ~IsBool(o) /\ Has(o, "required")) =>
                  /\ o.required # <<>>
                  /\ \A j, k \in DOMAIN o.required : o.required[j] = o.required[k] => j = k

\* C7: an operation that asks for a simple object schema raises, before it
\* allocates any document, when its receiver is not one; pickProperties and
\* pickAdditionalProperties raise when the receiver is not object kind or
\* carries a combinator keyword.
C7_NonSimpleReceiverIsRejected ==
    /\ (last.op \in SimpleReceiverOperations /\ ~Simple(Obj(heap, builders[last.this]))) =>
          /\ last.out = "error"
          /\ last.result = 0
          /\ Len(heap) = last.heapLen
    /\ (/\ last.op \in {"pickProperties", "pickAdditionalProperties"}
        /\ \/ ~isObjectSchema(Obj(heap, builders[last.this]))
           \/ hasSchemasCombinationKeywords(Obj(heap, builders[last.this]))) =>
          last.out = "error" /\ last.result = 0

\* an object document that allows additional properties has been refused by
\* an operation that asks for a simple object schema
C7_Witness ==
    /\ last.op \in SimpleReceiverOperations
    /\ last.out = "error"
    /\ isObjectSchema(Obj(heap, builders[last.this]))
    /\ ~hasSchemasCombinationKeywords(Obj(heap, builders[last.this]))
    /\ Has(Obj(heap, builders[last.this]), "additionalProperties")
    /\ Obj(heap, builders[last.this]).additionalProperties # BoolNode(FALSE)

\* C8: intersectProperties, mergeProperties and overwriteProperties raise
\* when their argument is not a simple object schema.
C8_NonSimpleArgumentIsRejected ==
    (last.op \in BinaryOperations /\ ~Simple(Obj(heap, builders[last.other]))) =>
        last.out = "error"

\* C9: addProperty raises when the receiver has the name, whatever the
\* required flag; addProperties raises when the receiver has one of the
\* names, and then no document with any of them comes out.
C9_ExistingNameIsRejected ==
    /\ (/\ last.op = "addProperty"
        /\ last.name \in DOMAIN PropsOf(Obj(heap, builders[last.this]))) =>
          last.out = "error" /\ last.result = 0
    /\ (/\ last.op = "addProperties"
        /\ \E i \in DOMAIN last.names :
              last.names[i] \in DOMAIN PropsOf(Obj(heap, builders[last.this]))) =>
          last.out = "error" /\ last.result = 0

\* addProperty has refused an existing name given with isRequired = false
C9_Witness ==
    /\ last.op = "addProperty"
    /\ last.isRequired = "false"
    /\ last.name \in DOMAIN PropsOf(Obj(heap, builders[last.this]))
    /\ last.out = "error"

SingleForm == {"cacheValidationFunction", "validate"}
ListForm == {"cacheListValidationFunction", "validateList"}

\* C2: the first validate (resp. validateList) call on a document after a
\* setGlobalValidationConfig call that returns a verdict runs a function
\* compiled under the configuration that is current at the call, and reports
\* every violation when that configuration has allErrors, the first one
\* otherwise.
C2_NextValidateUsesCurrentGlobalConfig ==
    (/\ last.op \in {"validate", "validateList"}
     /\ last.first
     /\ globalAJVConfigVersionNumber > 0
     /\ last.out # "error") =>
        /\ last.config = Spread(globalAJVConfig, builders[last.this].validationConfig)
        /\ ~Spread(globalAJVConfig, builders[last.this].validationConfig).allErrors =>
              Len(last.report) <= 1

C4_GlobalVersionCountsTheCalls ==
    /\ [][ IF last'.op = "setGlobalValidationConfig"
           THEN globalAJVConfigVersionNumber' = globalAJVConfigVersionNumber + 1
           ELSE globalAJVConfigVersionNumber' = globalAJVConfigVersionNumber ]_vars
    /\ [](\A i \in DOMAIN builders :
              /\ builders[i].localValidationFunctionVersionNumber
                     <= globalAJVConfigVersionNumber
              /\ builders[i].localListValidationFunctionVersionNumber
                     <= globalAJVConfigVersionNumber)

\* setGlobalValidationConfig has been called with a partial that changes no
\* option, after an instance recorded a version
C4_Witness ==
    /\ last.op = "setGlobalValidationConfig"
    /\ Spread(globalAJVConfig, last.config) = InitialGlobalAJVConfig
    /\ globalAJVConfig = InitialGlobalAJVConfig
    /\ globalAJVConfigVersionNumber = 2
    /\ \E i \in DOMAIN builders : builders[i].localValidationFunctionVersionNumber = 1

\* C5: the function that validates was compiled with, for every option key of
\* the instance's validationConfig, the instance's value, and for every other
\* key the value the global configuration has at the call.
C5_LocalOverrideOnCurrentGlobalConfig ==
    (last.op \in {"validate", "validateList"} /\ last.out # "error") =>
        /\ DOMAIN last.config =
               DOMAIN globalAJVConfig \cup DOMAIN builders[last.this].validationConfig
        /\ \A k \in DOMAIN last.config :
              last.config[k] = IF k \in DOMAIN builders[last.this].validationConfig
                               THEN builders[last.this].validationConfig[k]
                               ELSE globalAJVConfig[k]

\* C11: addAdditionalProperties returns only for an object-kind receiver
\* whose additionalProperties is not set, and then the result has
\* additionalProperties true or the given sub-document; it raises when the
\* receiver's additionalProperties is set, so a second call on the result of
\* a first one raises.
C11_AdditionalPropertiesSetOnceOnObjects ==
    last.op = "addAdditionalProperties" =>
        LET receiver == Obj(heap, builders[last.this])
            isSet == /\ Has(receiver, "additionalProperties")
                     /\ receiver.additionalProperties # BoolNode(FALSE)
        IN /\ isSet => last.out = "error"
           /\ last.out = "ok" =>
                 /\ isObjectSchema(receiver)
                 /\ ~isSet
                 /\ Obj(heap, builders[last.result]).additionalProperties =
                        IF last.other = 0 THEN BoolNode(TRUE)
                        ELSE Obj(heap, builders[last.other])
                 /\ addAdditionalProperties(heap, builders[last.result], <<>>).out = "error"

\* p is a property of o / p is in o's required list
IsProperty(o, p) == p \in DOMAIN PropsOf(o)
IsRequired(o, p) == InSeq(p, ReqOf(o))
\* a document as the typed interface builds it: its required list names
\* properties it has
RequiresOnlyProperties(o) == \A p \in PropNames : IsRequired(o, p) => IsProperty(o, p)

\* the last call was the binary operation op on two simple object schemas
\* whose required lists name only their own properties
CombinedBy(op) ==
    /\ last.op = op
    /\ Simple(Obj(heap, builders[last.this]))
    /\ Simple(Obj(heap, builders[last.other]))
    /\ RequiresOnlyProperties(Obj(heap, builders[last.this]))
    /\ RequiresOnlyProperties(Obj(heap, builders[last.other]))

DataKeys == PropNames \cup {"x-k"}
\* the keys of data that the additionalProperties keyword of schema applies
\* to: those that are no property and that no pattern property matches
AdditionalKeys(schema, data) ==
    {k \in DOMAIN data :
        /\ k \notin DOMAIN PropsOf(schema)
        /\ ~(/\ Has(schema, "patternProperties")
             /\ \E pattern \in DOMAIN schema.patternProperties : PatternMatches(pattern, k))}
\* validation of data fails on the additionalProperties keyword
RejectsAdditional(schema, data) ==
    /\ Has(schema, "additionalProperties")
    /\ schema.additionalProperties = BoolNode(FALSE)
    /\ AdditionalKeys(schema, data) # {}

\* the last call was pickProperties, with names the receiver has, on an
\* object-kind document without combinator keyword
PickedFrom(receiver) ==
    /\ last.op = "pickProperties"
    /\ isObjectSchema(receiver)
    /\ ~(Has(receiver, "oneOf") \/ Has(receiver, "allOf") \/ Has(receiver, "anyOf")
             \/ Has(receiver, "not"))
    /\ \A i \in DOMAIN last.names : IsProperty(receiver, last.names[i])

\* C15: pickProperties(names) yields the named properties with the
\* sub-documents they had, the receiver's required list restricted to names,
\* and additionalProperties false, and the result rejects data with a key
\* outside names.
C15_PickProperties ==
    PickedFrom(Obj(heap, builders[last.this])) =>
        /\ last.out = "ok"
        /\ LET A == Obj(heap, builders[last.this])
               R == Obj(heap, builders[last.result])
               names == {last.names[i] : i \in DOMAIN last.names}
           IN /\ DOMAIN PropsOf(R) = names
              /\ \A p \in names : R.properties[p] = A.properties[p]
              /\ ReqOf(R) = Keep(ReqOf(A), last.names)
              /\ Has(R, "additionalProperties") /\ R.additionalProperties = BoolNode(FALSE)
              /\ \A k \in DataKeys \ names :
                    RejectsAdditional(R, [p \in names \cup {k} |-> "v"])

\* C16: renameProperty(old, new) on a simple object schema that has old maps
\* new to old's sub-document and requires new iff the receiver required old;
\* on one that has not old it returns a document equal to the receiver.
C16_RenameProperty ==
    (last.op = "renameProperty" /\ Simple(Obj(heap, builders[last.this]))) =>
        /\ last.out = "ok"
        /\ LET A == Obj(heap, builders[last.this])
               R == Obj(heap, builders[last.result])
           IN IF IsProperty(A, last.name)
              THEN /\ IsProperty(R, last.newName)
                   /\ R.properties[last.newName] = A.properties[last.name]
                   /\ IsRequired(R, last.newName) <=> IsRequired(A, last.name)
              ELSE R = A

\* C17: D.toOptionals() has no required list and no default facet on a
\* direct property, and applying toOptionals to it returns a document equal
\* to it.
C17_ToOptionals ==
    (/\ last.op = "toOptionals"
     /\ \A p \in DOMAIN PropsOf(Obj(heap, builders[last.this])) :
           ~IsUndef(Obj(heap, builders[last.this]).properties[p])) =>
        /\ last.out = "ok"
        /\ LET R == Obj(heap, builders[last.result])
               again == toOptionals(heap, builders[last.result])
           IN /\ ~Has(R, "required")
              /\ \A p \in DOMAIN PropsOf(R) : ~Has(R.properties[p], "default")
              /\ again.out = "ok"
              /\ Deref(again.heap, again.schemaObject) = R

\* toOptionals has been applied to a document with a required list and a
\* property that has a default
C17_Witness ==
    /\ last.op = "toOptionals"
    /\ last.out = "ok"
    /\ Has(Obj(heap, builders[last.this]), "required")
    /\ \E p \in DOMAIN PropsOf(Obj(heap, builders[last.this])) :
          Has(Obj(heap, builders[last.this]).properties[p], "default")

\* the number of times x occurs in the sequence s
Occurrences(s, x) == Cardinality({i \in DOMAIN s : s[i] = x})

\* the document that the resolver of the last replaceProperty call stands
\* for: the given one, or what the function (s) => s.toOptionals() returns
\* for an instance over the receiver's sub-document of that name
Replacement ==
    IF last.other # 0 THEN Obj(heap, builders[last.other])
    ELSE LET old == [builders[last.this] EXCEPT
                        !.schemaObject.path = Append(@, [k |-> "properties", p |-> last.name])]
             made == toOptionals(heap, old)
         IN Deref(made.heap, made.schemaObject)

\* C18: replaceProperty and addOrReplaceProperty on an object-kind document
\* return a document in which the name maps to the replacement, is required
\* iff isRequired is not false and occurs at most once in required, and in
\* which every other property keeps its sub-document and required status.
C18_ReplaceProperty ==
    (/\ last.op \in {"replaceProperty", "addOrReplaceProperty"}
     /\ isObjectSchema(Obj(heap, builders[last.this]))
     /\ last.other = 0 => IsProperty(Obj(heap, builders[last.this]), last.name)) =>
        /\ last.out = "ok"
        /\ LET A == Obj(heap, builders[last.this])
               R == Obj(heap, builders[last.result])
           IN /\ DOMAIN PropsOf(R) = DOMAIN PropsOf(A) \cup {last.name}
              /\ R.properties[last.name] = Replacement
              /\ IsRequired(R, last.name) <=> last.isRequired # "false"
              /\ Occurrences(ReqOf(R), last.name) <= 1
              /\ \A q \in DOMAIN PropsOf(A) \ {last.name} :
                    /\ R.properties[q] = A.properties[q]
                    /\ IsRequired(R, q) <=> IsRequired(A, q)

\* ------------------------------------------------------------------ parse
numberSchema(schema, nullable) == Spread(schema, [type |-> NullableType("number", nullable)])

integerSchema(schema, nullable) == Spread(schema, [type |-> NullableType("integer", nullable)])

dateSchema(schema, nullable) ==
    Spread(schema, [type |-> NullableType("string", nullable), format |-> "date-time"])

\* JSON.parse(JSON.stringify(data)): a Date becomes the string its toJSON
\* renders, a number that is not finite becomes null
RECURSIVE JSONCopy(_)
JSONCopy(data) ==
    IF IsDate(data) THEN Str(data.date)
    ELSE IF Has(data, "infinity") \/ Has(data, "nan") THEN Null
    ELSE IF IsList(data) THEN List([i \in DOMAIN data.list |-> JSONCopy(data.list[i])])
    ELSE IF IsPlainObject(data) THEN [key \in DOMAIN data |-> JSONCopy(data[key])]
    ELSE data

\* Number(string), on the strings of the model
NumberOf(string) ==
    CASE string = "7" -> Num(70)
      [] string = "45.6" -> Num(456)
      [] string = "-1.5" -> Num(-15)
      [] string = "" -> Num(0)
      [] string = "Infinity" -> Infinity
      [] OTHER -> NaN

\* Math.floor
Floor(number) ==
    IF Has(number, "num") THEN Num((number.num \div 10) * 10) ELSE number

\* schema?.properties?.[key]
PropertySchema(schema, key) ==
    IF /\ ~IsUndef(schema)
       /\ Has(schema, "properties")
       /\ key \in DOMAIN schema.properties
    THEN schema.properties[key]
    ELSE Undef

\* schema?.items && !Array.isArray(schema.items) ? schema.items : undefined
ItemSchema(schema) ==
    IF ~IsUndef(schema) /\ Has(schema, "items") THEN schema.items ELSE Undef

\* Array.isArray(schema.type) ? schema.type : [schema.type]
SchemaType(schema) == IF Has(schema, "type") THEN schema.type.names ELSE <<>>

RECURSIVE transformStringToNumber(_, _)
transformStringToNumber(data, schema) ==
    IF IsNull(data) THEN data
    ELSE IF IsStr(data) /\ ~IsUndef(schema)
    THEN IF InSeq("number", SchemaType(schema)) \/ InSeq("integer", SchemaType(schema))
         THEN LET numValue == NumberOf(data.str)
              IN IF ~Has(numValue, "nan")
                 THEN IF Has(schema, "type") /\ schema.type = TypeName("integer")
                      THEN Floor(numValue)
                      ELSE numValue
                 ELSE data
         ELSE data
    ELSE IF IsList(data)
    THEN List([i \in DOMAIN data.list |->
                  transformStringToNumber(data.list[i], ItemSchema(schema))])
    ELSE IF IsDate(data) THEN EmptyObject
    ELSE IF IsPlainObject(data)
    THEN [key \in DOMAIN data |->
             transformStringToNumber(data[key], PropertySchema(schema, key))]
    ELSE data

\* the strings that match
\* /^\d{4}-\d{2}-\d{2}T\d{2}:\d{2}:\d{2}(\.\d+)?(Z|[+-]\d{2}:\d{2})$/
IsoPatternStrings ==
    {"2020-01-02T03:04:05.000Z", "2020-01-02T03:04:05Z", "2020-01-02T05:04:05+02:00",
     "2020-99-99T03:04:05Z", "2020-12-31T23:59:60Z"}

\* new Date(string), on the strings of the model: the date, or an invalid date
DateOf(string) ==
    CASE string \in {"2020-01-02T03:04:05.000Z", "2020-01-02T03:04:05Z",
                     "2020-01-02T05:04:05+02:00"} -> DateValue("2020-01-02T03:04:05.000Z")
      [] string = "2020-01-02" -> DateValue("2020-01-02T00:00:00.000Z")
      [] OTHER -> NaN

RECURSIVE transformISOStringsToDateBySchemaOnly(_, _)
\* a variant that converts only the strings of date-time nodes
transformISOStringsToDateBySchemaOnly(data, schema) ==
    IF IsNull(data) THEN data
    ELSE IF IsDate(data) THEN data
    ELSE IF IsStr(data)
    THEN LET isDateTimeField ==
                 /\ ~IsUndef(schema)
                 /\ InSeq("string", SchemaType(schema))
                 /\ Has(schema, "format")
                 /\ schema.format = "date-time"
             dateObj == DateOf(data.str)
         IN IF isDateTimeField /\ ~Has(dateObj, "nan")
            THEN dateObj
            ELSE data
    ELSE IF IsList(data)
    THEN List([i \in DOMAIN data.list |->
                  transformISOStringsToDateBySchemaOnly(data.list[i],
                      IF IsUndef(ItemSchema(schema)) THEN EmptyObject
                      ELSE ItemSchema(schema))])
    ELSE IF IsPlainObject(data)
    THEN [key \in DOMAIN data |->
             transformISOStringsToDateBySchemaOnly(data[key], PropertySchema(schema, key))]
    ELSE data

RECURSIVE transformISOStringsToDate(_, _)
transformISOStringsToDate(data, schema) ==
    IF IsNull(data) THEN data
    ELSE IF IsDate(data) THEN data
    ELSE IF IsStr(data)
    THEN LET isDateTimeField ==
                 /\ ~IsUndef(schema)
                 /\ InSeq("string", SchemaType(schema))
                 /\ Has(schema, "format")
                 /\ schema.format = "date-time"
             isIsoDateString == data.str \in IsoPatternStrings
             dateObj == DateOf(data.str)
         IN IF (isDateTimeField \/ isIsoDateString) /\ ~Has(dateObj, "nan")
            THEN dateObj
            ELSE data
    ELSE IF IsList(data)
    THEN List([i \in DOMAIN data.list |->
                  transformISOStringsToDate(data.list[i],
                      IF IsUndef(ItemSchema(schema)) THEN EmptyObject
                      ELSE ItemSchema(schema))])
    ELSE IF IsPlainObject(data)
    THEN [key \in DOMAIN data |->
             transformISOStringsToDate(data[key], PropertySchema(schema, key))]
    ELSE data

\* parse, called with the object that holds the caller's value.  It
\* allocates dataCopy and transformedData, validate allocates the value the
\* function runs on, and the last pass allocates the result.  out is as for
\* validate; result is the object returned, 0 when parse raises.
\* a variant that coerces the caller's object itself
parseInPlace(h, this, data) ==
    LET h1 == Append(h, h[data])
        coerced == Write(h1, data, transformStringToNumber(h[data], Obj(h, this)))
        h2 == Append(coerced, coerced[data])
        checked == validate(h2, this, data)
    IN [out |-> checked.out, compiled |-> checked.compiled, builder |-> checked.builder,
        report |-> checked.report, transformed |-> data,
        heap |-> IF checked.out = "ok"
                 THEN Append(checked.heap,
                             transformISOStringsToDate(coerced[data], Obj(h, this)))
                 ELSE checked.heap,
        result |-> IF checked.out = "ok" THEN Len(checked.heap) + 1 ELSE 0]

parse(h, this, data) ==
    LET dataCopy == JSONCopy(h[data])
        h1 == Append(h, dataCopy)
        transformedData == transformStringToNumber(dataCopy, Obj(h, this))
        h2 == Append(h1, transformedData)
        checked == validate(h2, this, Len(h2))
    IN [out |-> checked.out, compiled |-> checked.compiled, builder |-> checked.builder,
        report |-> checked.report, transformed |-> Len(h2),
        heap |-> IF checked.out = "ok"
                 THEN Append(checked.heap,
                             transformISOStringsToDate(checked.heap[Len(h2)], Obj(h, this)))
                 ELSE checked.heap,
        result |-> IF checked.out = "ok" THEN Len(checked.heap) + 1 ELSE 0]

\* a variant of parseList that runs the string-to-number pass, as parse does
parseListCoercing(h, this, dataList) ==
    LET dataCopy ==
            List([i \in DOMAIN h[dataList].list |->
                     transformStringToNumber(JSONCopy(h[dataList].list[i]), Obj(h, this))])
        h1 == Append(h, dataCopy)
        checked == validateList(h1, this, Len(h1))
    IN [out |-> checked.out, compiled |-> checked.compiled, builder |-> checked.builder,
        report |-> checked.report, transformed |-> Len(h1),
        heap |-> IF checked.out = "ok"
                 THEN Append(checked.heap,
                             List([i \in DOMAIN dataCopy.list |->
                                      transformISOStringsToDate(dataCopy.list[i],
                                                                Obj(h, this))]))
                 ELSE checked.heap,
        result |-> IF checked.out = "ok" THEN Len(checked.heap) + 1 ELSE 0]

\* parseList, called with the object that holds the caller's list; transformed
\* is dataCopy, the list handed to validateList
parseList(h, this, dataList) ==
    LET dataCopy == JSONCopy(h[dataList])
        h1 == Append(h, dataCopy)
        checked == validateList(h1, this, Len(h1))
    IN [out |-> checked.out, compiled |-> checked.compiled, builder |-> checked.builder,
        report |-> checked.report, transformed |-> Len(h1),
        heap |-> IF checked.out = "ok"
                 THEN Append(checked.heap,
                             List([i \in DOMAIN checked.heap[Len(h1)].list |->
                                      transformISOStringsToDate(checked.heap[Len(h1)].list[i],
                                                                Obj(h, this))]))
                 ELSE checked.heap,
        result |-> IF checked.out = "ok" THEN Len(checked.heap) + 1 ELSE 0]

\* --------------------------------------------------- parse: specification
\* A behaviour follows one document, the third instance, one value of the
\* caller, the fourth object, and one list of the caller, the fifth.  The documents are
\*   SB.objectSchema({}, { a: SB.numberSchema(), b: [SB.integerSchema(), undefined] })
\*   SB.objectSchema({}, { a: SB.integerSchema({}, true),
\*                         b: [SB.arraySchema(SB.integerSchema()), undefined] })
\*   SB.objectSchema({}, { a: SB.stringSchema({ default: "d" }),
\*                         b: [SB.dateSchema(), undefined] })
\*   SB.objectSchema({}, { a: SB.objectSchema({}, { a: SB.integerSchema() }),
\*                         b: [SB.stringSchema(), undefined] })
\*   SB.objectSchema({}, { a: SB.stringSchema(),
\*                         b: [SB.arraySchema(SB.dateSchema({}, true)), undefined] })
\*   SB.fromJsonSchema({ type: "object", properties: { a: { type: "integer" } },
\*                       additionalProperties: true })
ParseFixtureHeap ==
    << numberSchema(EmptyObject, FALSE),
       integerSchema(EmptyObject, FALSE),
       integerSchema(EmptyObject, TRUE),
       arraySchema(integerSchema(EmptyObject, FALSE), EmptyObject, FALSE),
       Fixture1,
       dateSchema(EmptyObject, FALSE),
       objectSchema(<<integerSchema(EmptyObject, FALSE)>>, EmptyObject,
                    <<Required("a", 1)>>, FALSE),
       stringSchema(EmptyObject, FALSE),
       arraySchema(dateSchema(EmptyObject, TRUE), EmptyObject, FALSE) >>

ParseDocuments ==
    { objectSchema(ParseFixtureHeap, EmptyObject, <<Required("a", 1), Optional("b", 2)>>, FALSE),
      objectSchema(ParseFixtureHeap, EmptyObject, <<Required("a", 3), Optional("b", 4)>>, FALSE),
      objectSchema(ParseFixtureHeap, EmptyObject, <<Required("a", 5), Optional("b", 6)>>, FALSE),
      objectSchema(ParseFixtureHeap, EmptyObject, <<Required("a", 7), Optional("b", 8)>>, FALSE),
      objectSchema(ParseFixtureHeap, EmptyObject, <<Required("a", 8), Optional("b", 9)>>, FALSE),
      [type |-> TypeName("object"),
       properties |-> [a |-> integerSchema(EmptyObject, FALSE)],
       additionalProperties |-> BoolNode(TRUE)] }

ParseValues ==
    { Str("7"), Str("-1.5"), Str("45.6"), Str(""), Str("Infinity"), Str("text"),
      Str("2020-01-02T03:04:05.000Z"), Str("2020-01-02T05:04:05+02:00"),
      Str("2020-12-31T23:59:60Z"),
      Num(70), Num(-15), Null, DateValue("2020-01-02T03:04:05.000Z"),
      List(<<Str("7"), Str("-1.5")>>), List(<<Str("2020-01-02T05:04:05+02:00"), Null>>),
      [a |-> Str("-1.5")] }

\* the values of the caller: objects, as the typed interface requires
ParseData ==
    {[a |-> v] : v \in ParseValues}
    \cup {[a |-> v, b |-> w] : v \in {Str("7"), Str("s")}, w \in ParseValues}
    \cup {[a |-> Str("7"), c |-> w] : w \in {Str("7"), List(<<Str("7")>>)}}
    \cup {[b |-> w] : w \in {Str("s"), Str("2020-01-02T03:04:05.000Z")}}

Data == 4
DataList == 5

\* the lists the caller makes of its value
ParseLists(data) == {List(<<>>), List(<<data>>), List(<<data, [a |-> Str("text")]>>)}

InitParse ==
    /\ \E d \in ParseDocuments, data \in ParseData :
          \E list \in ParseLists(data) : heap = FixtureHeap \o <<d, data, list>>
    /\ builders = [i \in 1..3 |-> SchemaBuilder(Ref(i), NoConfig)]
    /\ globalAJVConfig = InitialGlobalAJVConfig
    /\ globalAJVConfigVersionNumber = 0
    /\ nops = 0
    /\ last = NoOp
    /\ validatedSince = {}

\* the values parse and validate are called with: the caller's, or the one
\* the last parse returned
ParseArguments ==
    {Data} \cup (IF last.op = "parse" /\ last.result > 0 THEN {last.result} ELSE {})

\* a call on the document of the behaviour, with the object data
ParseCall(op, data, res) ==
    /\ nops < MaxOps
    /\ heap' = res.heap
    /\ builders' = [builders EXCEPT ![3] = res.builder]
    /\ last' = [NoOp EXCEPT !.op = op, !.this = 3, !.data = data,
                            !.out = res.out, !.result = res.result,
                            !.transformed = res.transformed,
                            !.compiled = res.compiled, !.report = res.report,
                            !.heapLen = Len(heap)]
    /\ nops' = nops + 1
    /\ UNCHANGED <<globalAJVConfig, globalAJVConfigVersionNumber, validatedSince>>

Parse ==
    \E data \in ParseArguments :
        /\ nops < MaxOps
        /\ ParseCall("parse", data, parse(heap, builders[3], data))

ParseList ==
    /\ nops < MaxOps
    /\ ParseCall("parseList", DataList, parseList(heap, builders[3], DataList))

\* validate and validateList return nothing: result is 0, transformed is the
\* object the function ran on
ValidateData ==
    \E data \in ParseArguments :
        /\ nops < MaxOps
        /\ LET res == validate(heap, builders[3], data)
           IN ParseCall("validate", data,
                        res @@ [result |-> 0, transformed |-> Len(heap) + 1])

ValidateDataList ==
    /\ nops < MaxOps
    /\ LET res == validateList(heap, builders[3], DataList)
       IN ParseCall("validateList", DataList,
                    res @@ [result |-> 0, transformed |-> Len(heap) + 1])

NextParse ==
    \/ Parse
    \/ ParseList
    \/ ValidateData
    \/ ValidateDataList

SpecParse == InitParse /\ [][NextParse]_vars

\* the strings that are parseable as a finite number, with their value in
\* tenths; the empty string, which Number reads as 0, is left open
FiniteNumberStrings == {"7", "45.6", "-1.5"}
ParsedTenths(string) ==
    CASE string = "7" -> 70
      [] string = "45.6" -> 456
      [] string = "-1.5" -> -15

\* truncation toward zero, in tenths
Truncated(tenths) ==
    IF tenths >= 0 THEN (tenths \div 10) * 10 ELSE -(((-tenths) \div 10) * 10)

IsNumberNode(schema) ==
    /\ ~IsUndef(schema)
    /\ Has(schema, "type")
    /\ \E i \in DOMAIN schema.type.names : schema.type.names[i] \in {"number", "integer"}

RECURSIVE CoercedAsStated(_, _, _)
\* after is what the string-to-number pass is stated to make of before
CoercedAsStated(before, after, schema) ==
    IF IsStr(before)
    THEN IF IsNumberNode(schema) /\ before.str \in FiniteNumberStrings
         THEN after = Num(IF schema.type = TypeName("integer")
                          THEN Truncated(ParsedTenths(before.str))
                          ELSE ParsedTenths(before.str))
         ELSE IF IsNumberNode(schema) /\ before.str = ""
         THEN after \in {before, Num(0)}
         ELSE after = before
    ELSE IF IsList(before)
    THEN /\ IsList(after)
         /\ DOMAIN after.list = DOMAIN before.list
         /\ \A i \in DOMAIN before.list :
                CoercedAsStated(before.list[i], after.list[i], ItemSchema(schema))
    ELSE IF IsPlainObject(before)
    THEN /\ IsPlainObject(after)
         /\ DOMAIN after = DOMAIN before
         /\ \A key \in DOMAIN before :
                CoercedAsStated(before[key], after[key], PropertySchema(schema, key))
    ELSE after = before

\* C20: in parse's string-to-number pass a string is replaced by a number
\* only when its schema node's type includes number or integer and the
\* string is parseable as a finite number; the replacement is the parsed
\* number, truncated toward zero when the node's type is exactly "integer";
\* every other string, and every value whose schema node is unknown or
\* missing, is left untouched.
C20_StringToNumberPass ==
    last.op = "parse" =>
        CoercedAsStated(heap[last.transformed - 1], heap[last.transformed],
                        Obj(heap, builders[last.this]))

\* C19: parse works on a deep copy of its input: every object that exists
\* when parse is called, the caller's value among them, is as it was after
\* parse returns or raises; a value is returned, as a new object, only when
\* the validation of the coerced data reports nothing, and when it reports a
\* violation parse raises the ValidationError and returns nothing.
C19_ParseWorksOnACopy ==
    [][last'.op = "parse" =>
          /\ \A i \in DOMAIN heap : heap'[i] = heap[i]
          /\ last'.report # <<>> => last'.out = "invalid"
          /\ last'.out # "ok" => last'.result = 0
          /\ last'.out = "ok" =>
                /\ last'.report = <<>>
                /\ last'.result \in DOMAIN heap' \ DOMAIN heap]_vars

\* parse raised on a value in which the string-to-number pass had replaced a
\* string
C19_Witness ==
    /\ last.op = "parse"
    /\ last.out = "invalid"
    /\ last.result = 0
    /\ last.data = Data
    /\ heap[last.transformed] # heap[Data]
    /\ \E key \in DOMAIN heap[Data] :
          IsStr(heap[Data][key]) /\ IsNum(heap[last.transformed][key])

\* an element of a list is valid for the document of parseList's receiver
ElementIsValid(element) ==
    LET this == builders[last.this]
        schema == Obj(heap, this)
        config == ajvValidationConfig(this)
    IN Violations(config, schema,
                  IF config.useDefaults THEN UseDefaults(schema, element) ELSE element,
                  <<>>) = <<>>

RECURSIVE NoStringBecameNumber(_, _)
\* no string of before is a number in after
NoStringBecameNumber(before, after) ==
    IF IsStr(before) THEN ~IsNum(after)
    ELSE IF IsList(before) /\ IsList(after)
    THEN \A i \in DOMAIN before.list \cap DOMAIN after.list :
             NoStringBecameNumber(before.list[i], after.list[i])
    ELSE IF IsPlainObject(before) /\ IsPlainObject(after)
    THEN \A key \in DOMAIN before \cap DOMAIN after :
             NoStringBecameNumber(before[key], after[key])
    ELSE TRUE

\* what the last call, a parseList, is stated to have done
ParseListAsStated ==
    last.op = "parseList" =>
        LET list == heap[DataList].list
            copy == heap[last.transformed]
        IN /\ copy = JSONCopy(heap[DataList])
           /\ last.transformed = last.heapLen + 1
           /\ last.out = "ok" <=>
                 /\ list # <<>>
                 /\ \A i \in DOMAIN list : ElementIsValid(copy.list[i])
           /\ last.out # "ok" => last.result = 0 /\ last.out = "invalid"
           /\ last.out = "ok" =>
                 /\ last.result > last.heapLen
                 /\ IsList(heap[last.result])
                 /\ DOMAIN heap[last.result].list = DOMAIN list
                 /\ \A i \in DOMAIN list :
                       heap[last.result].list[i] =
                           transformISOStringsToDate(copy.list[i],
                                                     Obj(heap, builders[last.this]))
                 /\ NoStringBecameNumber(heap[DataList], heap[last.result])

\* C21: parseList works on a deep copy of the list (the caller's list is as
\* it was), hands the whole copy to validateList, which fails on an empty
\* list and on any invalid element, and then nothing is returned; otherwise
\* it returns the list of the elements of the copy after the
\* wire-string-to-date pass alone: no string of the caller's list is a number
\* in the result.
C21_ParseList ==
    [][last'.op = "parseList" =>
          /\ \A i \in DOMAIN heap : heap'[i] = heap[i]
          /\ ParseListAsStated']_vars

\* parseList raised on a list whose only element holds a numeric string that
\* parse coerces and accepts
C21_Witness ==
    /\ last.op = "parseList"
    /\ last.out = "invalid"
    /\ Len(heap[DataList].list) = 1
    /\ parse(heap, builders[3], Data).out = "ok"
    /\ \E key \in DOMAIN heap[Data] :
          /\ IsStr(heap[Data][key])
          /\ IsNum(transformStringToNumber(JSONCopy(heap[Data]),
                                           Obj(heap, builders[3]))[key])

\* the property of the document of the behaviour that is date-valued, if any
IsDateProperty(key) ==
    LET node == PropertySchema(Obj(heap, builders[3]), key)
    IN /\ ~IsUndef(node)
       /\ Has(node, "format")
       /\ node.format = "date-time"

\* the wire strings that Date reads as an instant (a leap second is none)
DenotesInstant(wire) ==
    wire \in {"2020-01-02T03:04:05.000Z", "2020-01-02T03:04:05Z", "2020-01-02T05:04:05+02:00"}

\* the rendering toISOString gives of the instant a wire string denotes: UTC,
\* with milliseconds
CanonicalForm(wire) ==
    IF DenotesInstant(wire) THEN "2020-01-02T03:04:05.000Z" ELSE wire

\* the last call was a parse of the caller's value that returned, and key is
\* a date-valued property that holds a wire string in the caller's value
ParsedWireDate(key) ==
    /\ last.op = "parse"
    /\ last.data = Data
    /\ last.out = "ok"
    /\ IsDateProperty(key)
    /\ key \in DOMAIN heap[Data]
    /\ IsStr(heap[Data][key])

\* the last call was a validate of an object that parse returned
ValidatedParsed == last.op = "validate" /\ last.data > DataList

\* C22 as stated: parse of data holding a wire date string under a
\* date-valued property yields a date whose ISO-8601 rendering equals the
\* wire string, and validate on the parsed object does not raise.
C22_DateRoundTrip ==
    /\ \A key \in PropNames :
          ParsedWireDate(key) =>
              /\ IsDate(heap[last.result][key])
              /\ heap[last.result][key].date = heap[Data][key].str
    /\ ValidatedParsed => last.out = "ok"

\* C22, amended: for a wire string that Date reads as an instant, parse
\* yields the date of that instant, so that its ISO-8601 rendering is the wire
\* string brought to the form toISOString produces (UTC, milliseconds), and
\* equals the wire string when that is already in this form; a wire string
\* that Date does not read is returned as it is; validate on the parsed
\* object does not raise.
C22_DateRoundTripToCanonicalForm ==
    /\ \A key \in PropNames :
          ParsedWireDate(key) =>
              IF DenotesInstant(heap[Data][key].str)
              THEN /\ IsDate(heap[last.result][key])
                   /\ heap[last.result][key].date = CanonicalForm(heap[Data][key].str)
              ELSE heap[last.result][key] = heap[Data][key]
    /\ ValidatedParsed => last.out = "ok"

\* validate accepted an object parse returned, which holds a date under a
\* date-valued property whose wire string had an offset
C22_Witness ==
    /\ ValidatedParsed
    /\ last.out = "ok"
    /\ \E key \in PropNames :
          /\ IsDateProperty(key)
          /\ key \in DOMAIN heap[Data]
          /\ heap[Data][key] = Str("2020-01-02T05:04:05+02:00")
          /\ IsDate(heap[last.data][key])

\* a string node with format date-time
IsDateTimeNode(schema) ==
    /\ ~IsUndef(schema)
    /\ Has(schema, "type")
    /\ \E i \in DOMAIN schema.type.names : schema.type.names[i] = "string"
    /\ Has(schema, "format")
    /\ schema.format = "date-time"

RECURSIVE DatePassAsStated(_, _, _)
\* after is what the wire-string-to-date pass is stated to make of before
DatePassAsStated(before, after, schema) ==
    IF IsStr(before)
    THEN IF /\ IsDateTimeNode(schema) \/ before.str \in IsoPatternStrings
            /\ IsDate(DateOf(before.str))
         THEN after = DateOf(before.str)
         ELSE after = before
    ELSE IF IsList(before)
    THEN /\ IsList(after)
         /\ DOMAIN after.list = DOMAIN before.list
         /\ \A i \in DOMAIN before.list :
                DatePassAsStated(before.list[i], after.list[i], ItemSchema(schema))
    ELSE IF IsPlainObject(before)
    THEN /\ IsPlainObject(after)
         /\ DOMAIN after = DOMAIN before
         /\ \A key \in DOMAIN before :
                DatePassAsStated(before[key], after[key], PropertySchema(schema, key))
    ELSE after = before

\* C23: parse's final pass runs only after validation succeeded; in it a
\* string is replaced by its parsed date value if and only if its schema node
\* is a string node with format date-time, or the string matches the ISO-8601
\* extended pattern, and the parse yields a valid date; every other string,
\* every null and every other primitive is returned unchanged; the pass
\* recurses through array elements with the items schema and through object
\* properties with the schema of the property of the same name.
C23_DatePass ==
    last.op = "parse" =>
        /\ last.out # "ok" => last.result = 0
        /\ last.out = "ok" =>
              /\ last.result > last.transformed
              /\ DatePassAsStated(heap[last.transformed], heap[last.result],
                                  Obj(heap, builders[last.this]))

\* parse returned an object whose list of wire strings and nulls became a
\* list of dates and nulls, and in which a string that is no date was kept
C23_Witness ==
    /\ last.op = "parse"
    /\ last.out = "ok"
    /\ "b" \in DOMAIN heap[last.result]
    /\ heap[last.transformed]["b"] = List(<<Str("2020-01-02T05:04:05+02:00"), Null>>)
    /\ heap[last.result]["b"] = List(<<DateValue("2020-01-02T03:04:05.000Z"), Null>>)
    /\ IsStr(heap[last.result]["a"])

\* --------------------------------------------- construction: specification
\* The trees handed to SB.fromJsonSchema: with the keyword $ref at the root,
\* under a property, under items, in a combinator, under
\* additionalProperties, under a pattern property and two levels down, and
\* trees without it: two simple object schemas whose properties have an enum,
\* a type list, no type keyword, and two of the fixtures.
Reference == Put(EmptyObject, "$ref", "aReference")

SchemaTrees ==
    { Reference,
      [type |-> TypeName("object"), properties |-> [a |-> Reference]],
      [type |-> TypeName("array"), items |-> Reference],
      [allOf |-> <<emptySchema(EmptyObject, FALSE), Reference>>],
      [type |-> TypeName("object"), additionalProperties |-> Reference],
      [type |-> TypeName("object"), additionalProperties |-> BoolNode(FALSE),
       patternProperties |-> Put(EmptyObject, PatternKey("x-", ""), Reference)],
      [type |-> TypeName("object"), additionalProperties |-> BoolNode(FALSE),
       properties |-> [a |-> [type |-> TypeName("array"), items |-> Reference]]],
      [type |-> TypeName("object"), additionalProperties |-> BoolNode(FALSE),
       properties |-> [a |-> Fixture1], required |-> <<"a">>],
      [type |-> TypeName("object"), additionalProperties |-> BoolNode(FALSE),
       properties |-> [a |-> [type |-> TypeName("string"), enum |-> <<"x">>],
                       b |-> [type |-> TypeList(<<"string", "null">>),
                              enum |-> <<"x", NullLit>>],
                       c |-> [type |-> TypeName("string"), enum |-> <<"x">>]],
       required |-> <<"c">>],
      [type |-> TypeName("object"), additionalProperties |-> BoolNode(FALSE),
       properties |-> [a |-> [oneOf |-> <<Fixture1, Fixture2>>],
                       b |-> [type |-> TypeName("null")],
                       c |-> [enum |-> <<"x">>]]],
      Fixture2 }

\* SB.fromJsonSchema(schema): new SchemaBuilder(schema)
fromJsonSchema(h, schema) == New(Append(h, schema), Ref(Len(h) + 1), NoConfig)

FromJsonSchema ==
    \E schema \in SchemaTrees :
        /\ nops < MaxOps
        /\ Call([NoOp EXCEPT !.op = "fromJsonSchema", !.schema = schema],
                fromJsonSchema(heap, schema))

NextConstruct ==
    \/ FromJsonSchema
    \/ SetSchemaAttributes
    \/ AddProperty
    \/ AddAdditionalProperties
    \/ ToDeepOptionals
    \/ ToNullable
    \/ MergeProperties
    \/ GetSubschema
    \/ GetItemsSubschema

SpecConstruct == Init /\ [][NextConstruct]_vars

\* C24: constructing a document from a tree in which some node carries $ref
\* fails, and no document that exists carries $ref in any node.
C24_NoReferenceKeyword ==
    /\ last.op = "fromJsonSchema" =>
          (last.out = "error" <=> ContainsRef(last.schema))
    /\ \A i \in DOMAIN builders : ~ContainsRef(Obj(heap, builders[i]))

\* a tree with $ref two levels down was refused
C24_Witness ==
    /\ last.op = "fromJsonSchema"
    /\ last.out = "error"
    /\ ~Has(last.schema, "$ref")
    /\ Has(last.schema, "properties")
    /\ Has(last.schema.properties["a"], "items")
    /\ Has(last.schema.properties["a"].items, "$ref")

\* C25: every structural transformation, and getSubschema and
\* getItemsSubschema, applied to a document that carries a local validation
\* override returns a document that carries the same override.
C25_OverrideIsCarriedOver ==
    (/\ last.op \in StructuralTransformations \cup {"getSubschema", "getItemsSubschema"}
     /\ last.out = "ok"
     /\ builders[last.this].validationConfig # NoConfig) =>
        builders[last.result].validationConfig = builders[last.this].validationConfig

\* the last call was a toNullable that returned; A is the receiver's document
\* and B the one returned
MadeNullable == last.op = "toNullable" /\ last.out = "ok"

\* C26 as stated: toNullable on a simple object schema widens every
\* non-required property so that it accepts null: its type list gains "null"
\* and, if it has an enum, the enum gains the null literal; every required
\* property's sub-document and the required list are unchanged.
C26_ToNullable ==
    MadeNullable =>
        LET A == Obj(heap, builders[last.this])
            B == Obj(heap, builders[last.result])
        IN /\ ReqOf(B) = ReqOf(A)
           /\ DOMAIN PropsOf(B) = DOMAIN PropsOf(A)
           /\ \A p \in DOMAIN PropsOf(A) :
                 IF IsRequired(A, p) THEN B.properties[p] = A.properties[p]
                 ELSE /\ Has(B.properties[p], "type")
                      /\ InSeq("null", B.properties[p].type.names)
                      /\ Has(B.properties[p], "enum") => InSeq(NullLit, B.properties[p].enum)

\* what toNullable makes of a property that has a type keyword: "null" is
\* appended to the type unless the type has it, and to the enum, if any,
\* unless the enum has it
Widened(P) ==
    LET names == IF InSeq("null", P.type.names) THEN P.type.names
                 ELSE Append(P.type.names, "null")
        typed == IF P.type = TypeName("null") THEN P
                 ELSE [P EXCEPT !.type = TypeList(names)]
    IN IF Has(P, "enum") /\ ~InSeq(NullLit, P.enum)
       THEN [typed EXCEPT !.enum = Append(P.enum, NullLit)]
       ELSE typed

\* C26, amended: toNullable on a simple object schema replaces every
\* non-required property that has a type keyword by the same sub-document
\* with "null" added to its type and, if it has an enum, to the enum, and
\* every non-required property without a type keyword, P, by
\* anyOf[P, {type: "null"}]; every required property's sub-document and the
\* required list are unchanged.
C26_ToNullableByTypeOrAnyOf ==
    MadeNullable =>
        LET A == Obj(heap, builders[last.this])
            B == Obj(heap, builders[last.result])
        IN /\ ReqOf(B) = ReqOf(A)
           /\ DOMAIN PropsOf(B) = DOMAIN PropsOf(A)
           /\ \A p \in DOMAIN PropsOf(A) :
                 IF IsRequired(A, p) THEN B.properties[p] = A.properties[p]
                 ELSE IF Has(A.properties[p], "type")
                 THEN B.properties[p] = Widened(A.properties[p])
                 ELSE B.properties[p] =
                          [anyOf |-> <<A.properties[p], [type |-> TypeName("null")]>>]

\* toNullable returned for a document with a required property, an optional
\* one whose type and enum were widened and one that already had "null"
C26_Witness ==
    /\ MadeNullable
    /\ LET A == Obj(heap, builders[last.this])
           B == Obj(heap, builders[last.result])
       IN /\ DOMAIN PropsOf(A) = {"a", "b", "c"}
          /\ ReqOf(A) = <<"c">>
          /\ B.properties["a"] =
                 [type |-> TypeList(<<"string", "null">>), enum |-> <<"x", NullLit>>]
          /\ B.properties["b"] = A.properties["b"]
          /\ B.properties["c"] = A.properties["c"]

\* a property of array kind: its type is "array" or a list containing "array"
ArrayKind(P) == Has(P, "type") /\ InSeq("array", P.type.names)

\* the names the last call selects: the given ones, or every property
SelectedNames(A) ==
    IF last.more = <<>> THEN DOMAIN PropsOf(A)
    ELSE {last.more[1][i] : i \in DOMAIN last.more[1]}

\* the last call is op on a simple object document, each selected name being
\* a property of it
ArraysCall(op) ==
    /\ last.op = op
    /\ isSimpleObjectSchema(Obj(heap, builders[last.this]))
    /\ \A p \in SelectedNames(Obj(heap, builders[last.this])) :
          IsProperty(Obj(heap, builders[last.this]), p)
          /\ ~IsUndef(Obj(heap, builders[last.this]).properties[p])

\* C27: transformPropertiesToArray leaves a selected property of array kind
\* (a nullable array included) untouched and replaces any other selected
\* property P by oneOf[P, array-of-P]; unwrapArrayProperties replaces a
\* selected property A of array kind (a nullable array included) by
\* oneOf[items-of-A, A] and leaves any other property untouched; without
\* names every property is selected.
C27_ArrayAlternatives ==
    /\ ArraysCall("transformPropertiesToArray") =>
          /\ last.out = "ok"
          /\ LET A == Obj(heap, builders[last.this])
                 R == Obj(heap, builders[last.result])
             IN /\ DOMAIN PropsOf(R) = DOMAIN PropsOf(A)
                /\ \A p \in DOMAIN PropsOf(A) :
                      LET P == A.properties[p]
                      IN R.properties[p] =
                            IF p \in SelectedNames(A) /\ ~ArrayKind(P)
                            THEN [oneOf |-> <<P, [type |-> TypeName("array"), items |-> P]>>]
                            ELSE P
    /\ ArraysCall("unwrapArrayProperties") =>
          /\ last.out = "ok"
          /\ LET A == Obj(heap, builders[last.this])
                 R == Obj(heap, builders[last.result])
             IN /\ DOMAIN PropsOf(R) = DOMAIN PropsOf(A)
                /\ \A p \in DOMAIN PropsOf(A) :
                      LET P == A.properties[p]
                      IN R.properties[p] =
                            IF p \in SelectedNames(A) /\ ArrayKind(P)
                            THEN [oneOf |-> <<P.items, P>>]
                            ELSE P

\* C28: an instance whose recorded version of a form is the global one holds,
\* for that form, no function compiled under another configuration than the
\* current one: after a compilation that raised, the previous function is not
\* left marked as current, so that the next call compiles again.
C28_NoStaleFunctionMarkedCurrent ==
    \A i \in DOMAIN builders :
        /\ (/\ builders[i].validationFunction.compiled
            /\ builders[i].localValidationFunctionVersionNumber
                   = globalAJVConfigVersionNumber) =>
              builders[i].validationFunction.config = ajvValidationConfig(builders[i])
        /\ (/\ builders[i].listValidationFunction.compiled
            /\ builders[i].localListValidationFunctionVersionNumber
                   = globalAJVConfigVersionNumber) =>
              builders[i].listValidationFunction.config = ajvValidationConfig(builders[i])

\* the keys of a value of the caller, element by element for a list
KeysOf(value) ==
    IF IsList(value) THEN [i \in DOMAIN value.list |-> DOMAIN value.list[i]]
    ELSE DOMAIN value

\* C29: validate, validateList, parse and parseList leave every object that
\* exists at the call as it is, the caller's value included: what the
\* function does to its input is done to the object the date-to-wire pass
\* builds.  The value parse or parseList returns has the keys of the caller's
\* value, none that the function has added.
C29_CallerValueIsNotModified ==
    [][last'.op \in {"validate", "validateList", "parse", "parseList"} =>
          /\ \A i \in DOMAIN heap : heap'[i] = heap[i]
          /\ (last'.op \in {"parse", "parseList"} /\ last'.out = "ok") =>
                KeysOf(heap'[last'.result]) = KeysOf(heap[last'.data])]_vars

\* validate or validateList has accepted the caller's value, the function
\* having assigned a default to the object it ran on
C29_Witness ==
    /\ last.op \in {"validate", "validateList"}
    /\ last.data \in {Data, DataList}
    /\ last.out = "ok"
    /\ KeysOf(heap[last.transformed]) # KeysOf(heap[last.data])

\* every required name is a property and every property has a sub-document
WellFormed(D) ==
    /\ Has(D, "required") => \A i \in DOMAIN D.required : D.required[i] \in DOMAIN PropsOf(D)
    /\ \A p \in DOMAIN PropsOf(D) : ~IsUndef(D.properties[p])

\* the documents of the behaviour: the third instance and those made from it
AllWellFormed == \A i \in 3..Len(builders) : WellFormed(Obj(heap, builders[i]))

\* Documents of emptySchema and objectSchema, the second with two required
\* properties: the behaviours that start with one of them as third instance.
ObjectDocuments ==
    { emptySchema(EmptyObject, FALSE),
      objectSchema(FixtureHeap, EmptyObject, <<Required("a", 1), Required("c", 1)>>, FALSE) }

InitObjects ==
    /\ \E d \in ObjectDocuments : heap = Append(FixtureHeap, d)
    /\ builders = [i \in 1..3 |-> SchemaBuilder(Ref(i), NoConfig)]
    /\ globalAJVConfig = InitialGlobalAJVConfig
    /\ globalAJVConfigVersionNumber = 0
    /\ nops = 0
    /\ last = NoOp
    /\ validatedSince = {}

SpecObjects == InitObjects /\ [][Next]_vars

\* the property names call is made with name properties of its receiver
TypedCall(call) ==
    LET A == Obj(heap, builders[call.this])
        Named(names) == \A i \in DOMAIN names : IsProperty(A, names[i])
    IN CASE call.op \in {"setOptionalProperties", "setRequiredProperties", "pickProperties",
                         "omitProperties", "pickAdditionalProperties"} -> Named(call.names)
         [] call.op \in {"renameProperty", "replaceProperty", "getSubschema"} ->
                IsProperty(A, call.name)
         [] call.op \in {"transformProperties", "transformPropertiesToArray",
                         "unwrapArrayProperties"} ->
                call.more = <<>> \/ Named(call.more[1])
         [] OTHER -> TRUE

\* C30: a transformation whose property names name properties of its receiver
\* takes documents in which every required name is a property and every
\* property has a sub-document to a document of that kind, and the documents
\* emptySchema and objectSchema make are of that kind.
C30_RequiredNamesAreProperties ==
    /\ AllWellFormed
    /\ [][(AllWellFormed /\ TypedCall(last')) => AllWellFormed']_vars
====
